---- MODULE Spec2Model ----
(***************************************************************************)
(* A model of the hortuscognitor course-booking site: the payment ledger   *)
(* (CoursePayment, StripePaymentRecord), the Stripe handlers of            *)
(* courses/views.py, the amount computation of CoursePayment.save, the     *)
(* SiteSettings day-list parser and the three reminder batches.            *)
(*                                                                         *)
(* Money is counted in pence.  A timestamp is a value of the logical       *)
(* clock, 0 standing for NULL.  A payment-intent id is a positive number,  *)
(* 0 standing for None.                                                    *)
(***************************************************************************)
EXTENDS Integers, Sequences, FiniteSets, TLC

VARIABLES
    CoursePayment,        \* table: payment id -> row
    Booking,              \* table: booking id -> row
    StripePaymentRecord,  \* table: set of rows, unique on stripe_payment_intent_id
    stripeSession,        \* Stripe's side: the checkout session of each payment
    clock,                \* timezone.now(), strictly increasing between stamps
    confirmations,        \* confirmation e-mails sent per payment (customer, admin)
    lastReq,              \* the request handled last and the response to it
    rounding,             \* how the database rounds a decimal to 2 places
    saveIn,               \* SpecSave: the tier price and plan given to save()
    saveOut,              \* SpecSave: the instance and the stored row after save()
    daysIn,               \* SpecDays: payment_reminder_days_before_list
    daysOut,              \* SpecDays: what get_payment_reminder_days_list returned
    Course,               \* table: course id -> row
    CourseSession,        \* table: session id -> row
    SiteSettings,         \* the single SiteSettings row (pk = 1)
    EmailReminder,        \* table: the rows in the order of their creation
    outbox,               \* the e-mails handed to the mail server, in order
    today,                \* timezone.now().date(), counted in days
    lastRun,              \* the management command run last and its summary
    dueIn,                \* SpecDue: the payment and the date the properties read
    dueOut,               \* SpecDue: what is_overdue and next_payment_due returned
    cache,                \* django.core.cache: key -> value and expiry, or absent
    seconds,              \* time.time(), counted in seconds
    inflight,             \* the is_rate_limited calls between their get and their set
    served,               \* per cache key, the seconds at which requests were admitted
    lastCall,             \* the is_rate_limited call that returned last
    SiteSettingsRows,     \* table: the stored SiteSettings rows, pk -> row
    settingsOut,          \* what the last SiteSettings call did and returned
    worker                \* the invocations of a reminder batch that run side by side

payVars == <<CoursePayment, Booking, StripePaymentRecord, stripeSession, clock,
             confirmations, lastReq>>
saveVars == <<saveIn, saveOut>>
daysVars == <<daysIn, daysOut>>
remVars == <<Course, CourseSession, SiteSettings, EmailReminder, outbox, today, lastRun>>
dueVars == <<dueIn, dueOut>>
rateVars == <<cache, seconds, inflight, served, lastCall>>
singletonVars == <<SiteSettingsRows, settingsOut>>
auxVars == <<rateVars, singletonVars, worker>>
vars == <<payVars, rounding, saveVars, daysVars, remVars, dueVars, auxVars>>

-----------------------------------------------------------------------------
(* Bounds of the model *)

NumPayments == 1
MaxClock == 3

PaymentIds == 1..NumPayments
UnknownIntent == NumPayments + 1      \* an intent of no course payment

-----------------------------------------------------------------------------
(* Decimal arithmetic of CoursePayment.save *)

\* deposit_percentage has 2 decimal places and is divided by 100: a product
\* price * percentage counts 1/Scale of a penny.
Scale == 10000

RoundingModes == {"half_even", "half_up"}

\* A DecimalField(max_digits=10, decimal_places=2) keeps 2 decimal places:
\* x, counted in 1/Scale of a penny, is stored as whole pence.
Quantize(x, mode) ==
    LET q == x \div Scale
        r == x % Scale
    IN  IF 2 * r < Scale THEN q
        ELSE IF 2 * r > Scale THEN q + 1
        ELSE IF mode = "half_even" THEN (IF q % 2 = 0 THEN q ELSE q + 1)
        ELSE (IF x >= 0 THEN q + 1 ELSE q)

SaveAmountsFlatPercentage(price, name, pct) ==
    [total_amount   |-> price * Scale,
     deposit_amount |-> price * pct,
     final_amount   |-> price * Scale - price * pct]

\* CoursePayment.save: the instance's amounts, in 1/Scale of a penny.
\* price is in pence, pct in 1/100 of a percent.
SaveAmounts(price, name, pct) ==
    LET total == price * Scale
    IN  IF name = "installment"
        THEN [total_amount   |-> total,
              deposit_amount |-> price * pct,
              final_amount   |-> total - price * pct]
        ELSE [total_amount   |-> total,
              deposit_amount |-> total,
              final_amount   |-> 0]

\* The row as super().save() writes it: each amount at 2 decimal places.
StoredAmounts(price, name, pct, mode) ==
    LET a == SaveAmounts(price, name, pct)
    IN  [total_amount   |-> Quantize(a.total_amount, mode),
         deposit_amount |-> Quantize(a.deposit_amount, mode),
         final_amount   |-> Quantize(a.final_amount, mode)]

-----------------------------------------------------------------------------
(* Pricing tiers and payment plans as setup_pricing creates them *)

TierIds == {"basic", "standard", "solidarity"}
TierPrice(t) ==
    CASE t = "basic" -> 22500
      [] t = "standard" -> 32500
      [] t = "solidarity" -> 47500

PlanIds == {"full", "installment"}
PlanPercentage(pl) == IF pl = "full" THEN 10000 ELSE 5000

-----------------------------------------------------------------------------
(* The tables *)

Emails == {"ann@example.org", "bob@example.org"}

PaymentStatuses == {"pending", "deposit_paid", "fully_paid", "overdue", "cancelled"}
BookingStatuses == {"pending", "confirmed", "cancelled"}

NoPayment ==
    [exists |-> FALSE, pricing_tier |-> "basic", payment_plan |-> "full",
     status |-> "pending", stripe_payment_intent_id |-> 0,
     total_amount |-> 0, deposit_amount |-> 0, final_amount |-> 0,
     deposit_paid_at |-> 0, final_paid_at |-> 0]

NoBooking == [exists |-> FALSE, course |-> 0, email |-> "ann@example.org", status |-> "pending"]

NoSession == [created |-> FALSE, payment_type |-> "full", payment_intent |-> 0,
              amount_total |-> 0, paid |-> FALSE]

\* Stripe names the payment intent of a checkout session; one session is
\* created per payment, so the intent is told from the payment.
IntentOf(p) == p

\* super().save() of a CoursePayment: the amounts are recomputed from the
\* tier and the plan and the row is written.
SavedRow(row) ==
    LET a == StoredAmounts(TierPrice(row.pricing_tier), row.payment_plan,
                           PlanPercentage(row.payment_plan), rounding)
    IN  [row EXCEPT !.total_amount = a.total_amount,
                    !.deposit_amount = a.deposit_amount,
                    !.final_amount = a.final_amount]

\* What is kept of a request: its handler, whether construct_event accepted
\* it and the type of its event, the intent named by a verified
\* payment_intent.succeeded event (0 for every other request), the status of
\* the response, and whether the handler's except block ran.
Req(h, t, pi, ok, resp, p) ==
    [handler |-> h,
     verified |-> ok,
     event |-> IF ok THEN t ELSE "none",
     intent |-> IF ok /\ t = "payment_intent.succeeded" THEN pi ELSE 0,
     response |-> resp,
     error |-> FALSE]

\* The request ended in the handler's except block.
Failed(r) == [r EXCEPT !.error = TRUE]

NoReq == [handler |-> "none", verified |-> FALSE, event |-> "none", intent |-> 0,
          response |-> 0, error |-> FALSE]

\* Every step records the request it handled.
Log(r) == lastReq' = r

Min(S) == CHOOSE x \in S : \A y \in S : x <= y

-----------------------------------------------------------------------------
(* create_checkout_session *)

FreeIds == {p \in PaymentIds : ~Booking[p].exists}

CheckoutOutcomes == {"rate_limited", "not_found", "invalid", "stripe_error", "ok"}

Booking_saveUnvalidated(valid, new, old) == new

\* Booking.save: full_clean() first, the row is written only if it passes.
Booking_save(valid, new, old) == IF valid THEN new ELSE old

create_checkout_session(outcome, tier, plan, email, intentAtCreate) ==
    /\ FreeIds # {}
    /\ LET p == Min(FreeIds)
           row == SavedRow([NoPayment EXCEPT !.exists = TRUE,
                                             !.pricing_tier = tier,
                                             !.payment_plan = plan])
           payment_type == IF plan = "installment" THEN "deposit" ELSE "full"
           amount == IF plan = "installment" THEN row.deposit_amount
                     ELSE row.total_amount
           intent == IF intentAtCreate THEN IntentOf(p) ELSE 0
       IN  CASE outcome = "rate_limited" ->
                  /\ Log(Req("create_checkout_session", "none", 0, FALSE, 429, 0))
                  /\ UNCHANGED <<CoursePayment, Booking, stripeSession>>
             [] outcome = "not_found" ->
                  \* get_object_or_404 raised: no such course, no such plan, or
                  \* a pricing tier of another course
                  /\ Log(Failed(Req("create_checkout_session", "none", 0, FALSE, 400, 0)))
                  /\ UNCHANGED <<CoursePayment, Booking, stripeSession>>
             [] outcome = "invalid" ->
                  \* Booking.objects.create raised ValidationError
                  /\ Booking' = [Booking EXCEPT ![p] =
                        Booking_save(FALSE, [exists |-> TRUE, course |-> 1,
                                             email |-> email, status |-> "pending"], @)]
                  /\ Log(Failed(Req("create_checkout_session", "none", 0, FALSE, 400, 0)))
                  /\ UNCHANGED <<CoursePayment, stripeSession>>
             [] outcome = "stripe_error" ->
                  \* stripe.checkout.Session.create raised: both rows are written
                  /\ Booking' = [Booking EXCEPT ![p] =
                        [exists |-> TRUE, course |-> 1, email |-> email,
                         status |-> "pending"]]
                  /\ CoursePayment' = [CoursePayment EXCEPT ![p] = row]
                  /\ Log(Failed(Req("create_checkout_session", "none", 0, FALSE, 400, p)))
                  /\ UNCHANGED stripeSession
             [] outcome = "ok" ->
                  /\ Booking' = [Booking EXCEPT ![p] =
                        [exists |-> TRUE, course |-> 1, email |-> email,
                         status |-> "pending"]]
                  /\ CoursePayment' = [CoursePayment EXCEPT ![p] =
                        IF intent # 0
                        THEN SavedRow([row EXCEPT !.stripe_payment_intent_id = intent])
                        ELSE row]
                  /\ stripeSession' = [stripeSession EXCEPT ![p] =
                        [created |-> TRUE, payment_type |-> payment_type,
                         payment_intent |-> intent, amount_total |-> amount,
                         paid |-> FALSE]]
                  /\ Log(Req("create_checkout_session", "none", 0, FALSE, 200, p))
    /\ UNCHANGED <<StripePaymentRecord, clock, confirmations>>

\* Stripe's side: the customer pays the checkout session; the session then
\* names its payment intent.
CustomerPays(p) ==
    /\ stripeSession[p].created
    /\ ~stripeSession[p].paid
    /\ stripeSession' = [stripeSession EXCEPT ![p].paid = TRUE,
                                              ![p].payment_intent = IntentOf(p)]
    /\ Log(Req("stripe", "none", 0, FALSE, 0, p))
    /\ UNCHANGED <<CoursePayment, Booking, StripePaymentRecord, clock, confirmations>>

-----------------------------------------------------------------------------
(* payment_success *)

RecordExistsNever(pi) == FALSE

\* StripePaymentRecord.objects.filter(stripe_payment_intent_id=pi).first()
RecordExists(pi) ==
    \E r \in StripePaymentRecord : r.stripe_payment_intent_id = pi

\* The status update of payment_success, decided by the session's
\* payment_type tag alone.
SuccessUpdate(row, payment_type, intent, now) ==
    LET r1 == IF payment_type = "deposit"
              THEN [row EXCEPT !.status = "deposit_paid", !.deposit_paid_at = now]
              ELSE [row EXCEPT !.status = "fully_paid", !.deposit_paid_at = now,
                               !.final_paid_at = now]
    IN  IF intent # 0 THEN [r1 EXCEPT !.stripe_payment_intent_id = intent] ELSE r1

\* sid = 0: no session_id in the query string.  dbError: course_payment.save()
\* raised.
payment_success(sid, dbError) ==
    LET s == stripeSession[sid]
        now == clock + 1
        ok == Req("payment_success", "none", s.payment_intent, FALSE, 200, sid)
    IN  IF sid = 0
        THEN \* no session to process
             /\ Log(Req("payment_success", "none", 0, FALSE, 200, 0))
             /\ UNCHANGED <<CoursePayment, Booking, StripePaymentRecord,
                            stripeSession, clock, confirmations>>
        ELSE IF ~s.created
        THEN \* stripe.checkout.Session.retrieve raised
             /\ Log(Failed(Req("payment_success", "none", 0, FALSE, 200, 0)))
             /\ UNCHANGED <<CoursePayment, Booking, StripePaymentRecord,
                            stripeSession, clock, confirmations>>
        ELSE /\ clock < MaxClock
             /\ clock' = now
             /\ UNCHANGED <<Booking, stripeSession>>
             /\ IF dbError
                THEN /\ Log(Failed(ok))
                     /\ UNCHANGED <<CoursePayment, StripePaymentRecord, confirmations>>
                ELSE /\ CoursePayment' = [CoursePayment EXCEPT ![sid] =
                            SavedRow(SuccessUpdate(CoursePayment[sid], s.payment_type,
                                                   s.payment_intent, now))]
                     /\ IF s.payment_intent = 0 \/ RecordExists(s.payment_intent)
                        THEN \* StripePaymentRecord.objects.create raised
                             \* IntegrityError (NULL, or the unique intent id)
                             /\ Log(Failed(ok))
                             /\ UNCHANGED <<StripePaymentRecord, confirmations>>
                        ELSE /\ Log(ok)
                             /\ StripePaymentRecord' = StripePaymentRecord \cup
                                   {[course_payment |-> sid,
                                     payment_type |-> s.payment_type,
                                     stripe_payment_intent_id |-> s.payment_intent,
                                     amount |-> s.amount_total,
                                     status |-> "succeeded"]}
                             /\ confirmations' =
                                   [confirmations EXCEPT ![sid] = @ + 1]

-----------------------------------------------------------------------------
(* stripe_webhook *)

EventTypes == {"payment_intent.succeeded", "payment_intent.payment_failed",
               "charge.refunded"}
IntentIds == PaymentIds \cup {UnknownIntent}

WebhookTransitionTwoSteps(row, now) ==
    IF row.status = "pending"
    THEN [row EXCEPT !.status = "fully_paid", !.deposit_paid_at = now,
                     !.final_paid_at = now]
    ELSE IF row.status = "deposit_paid"
    THEN [row EXCEPT !.status = "fully_paid", !.final_paid_at = now]
    ELSE row

\* The status update of stripe_webhook on payment_intent.succeeded.
WebhookTransition(row, now) ==
    IF row.status = "pending"
    THEN [row EXCEPT !.status = "deposit_paid", !.deposit_paid_at = now]
    ELSE IF row.status = "deposit_paid"
    THEN [row EXCEPT !.status = "fully_paid", !.final_paid_at = now]
    ELSE row

\* CoursePayment.objects.filter(stripe_payment_intent_id=pi).first()
Correlated(pi) ==
    LET S == {p \in PaymentIds : /\ CoursePayment[p].exists
                                 /\ CoursePayment[p].stripe_payment_intent_id = pi}
    IN  IF S = {} THEN 0 ELSE Min(S)

\* What Stripe can have signed: a succeeded event names an intent that was
\* paid.
StripeEmits(type, pi) ==
    \/ pi = UnknownIntent
    \/ /\ pi \in PaymentIds
       /\ stripeSession[pi].created
       /\ type = "payment_intent.succeeded" => stripeSession[pi].paid
       /\ type = "payment_intent.payment_failed" => ~stripeSession[pi].paid

RejectedNever(verified) == FALSE

\* stripe.Webhook.construct_event raises ValueError on a malformed payload and
\* SignatureVerificationError on a signature that does not verify.
Rejected(verified) == ~verified

PaymentFailedCancels(row) == [row EXCEPT !.status = "cancelled"]

\* payment_intent.payment_failed: the payment found is logged, not changed.
PaymentFailedUpdate(row) == row

\* dbError: a query or course_payment.save() raised.
stripe_webhook(verified, type, pi, dbError) ==
    /\ UNCHANGED <<Booking, StripePaymentRecord, stripeSession, confirmations>>
    /\ LET p == Correlated(pi)
           now == clock + 1
           stamps == p # 0 /\ CoursePayment[p].status \in {"pending", "deposit_paid"}
           r200 == Req("stripe_webhook", type, pi, verified, 200, p)
       IN  IF Rejected(verified)
           THEN /\ Log(Req("stripe_webhook", "none", 0, FALSE, 400, 0))
                /\ UNCHANGED <<CoursePayment, clock>>
           ELSE /\ verified => StripeEmits(type, pi)
                /\ IF type = "payment_intent.succeeded"
                   THEN IF dbError
                        THEN /\ Log(Failed(Req("stripe_webhook", type, pi, verified,
                                               500, 0)))
                             /\ UNCHANGED <<CoursePayment, clock>>
                        ELSE IF RecordExists(pi)
                        THEN /\ Log(r200)
                             /\ UNCHANGED <<CoursePayment, clock>>
                        ELSE IF p = 0
                        THEN /\ Log(r200)
                             /\ UNCHANGED <<CoursePayment, clock>>
                        ELSE /\ stamps => clock < MaxClock
                             /\ clock' = IF stamps THEN now ELSE clock
                             /\ CoursePayment' = [CoursePayment EXCEPT ![p] =
                                   SavedRow(WebhookTransition(CoursePayment[p], now))]
                             /\ Log(r200)
                   ELSE IF type = "payment_intent.payment_failed" /\ p # 0 /\ ~dbError
                   THEN /\ CoursePayment' = [CoursePayment EXCEPT ![p] =
                              PaymentFailedUpdate(CoursePayment[p])]
                        /\ Log(r200)
                        /\ UNCHANGED clock
                   ELSE \* the failure, or the query's exception, is logged;
                        \* other types are ignored
                        /\ Log(r200)
                        /\ UNCHANGED <<CoursePayment, clock>>

-----------------------------------------------------------------------------
(* The admin site *)

\* CoursePaymentAdmin: the status is an editable field of the change form.
AdminSetStatus(p, st) ==
    /\ CoursePayment[p].exists
    /\ CoursePayment[p].status # st
    /\ CoursePayment' = [CoursePayment EXCEPT ![p] =
            SavedRow([CoursePayment[p] EXCEPT !.status = st])]
    /\ Log(Req("admin", "none", 0, FALSE, 200, p))
    /\ UNCHANGED <<Booking, StripePaymentRecord, stripeSession, clock, confirmations>>

-----------------------------------------------------------------------------
(* The payment ledger and the Stripe handlers *)

InitLedgerIdle ==
    /\ StripePaymentRecord = {}
    /\ stripeSession = [p \in PaymentIds \cup {0} |-> NoSession]
    /\ clock = 0
    /\ confirmations = [p \in PaymentIds |-> 0]
    /\ lastReq = NoReq

InitPay ==
    /\ CoursePayment = [p \in PaymentIds |-> NoPayment]
    /\ Booking = [p \in PaymentIds |-> NoBooking]
    /\ StripePaymentRecord = {}
    /\ stripeSession = [p \in PaymentIds \cup {0} |-> NoSession]
    /\ clock = 0
    /\ confirmations = [p \in PaymentIds |-> 0]
    /\ lastReq = NoReq

InitSaveIdle ==
    /\ saveIn = [price |-> 0, name |-> "full", pct |-> 0]
    /\ saveOut = [done |-> FALSE]

InitDaysIdle ==
    /\ daysIn = [text |-> <<>>, tokens |-> <<>>]
    /\ daysOut = [done |-> FALSE, days |-> <<>>]

NotAsked == [asked_overdue |-> FALSE, overdue |-> FALSE,
             asked_due |-> FALSE, due |-> 0]

InitDueIdle ==
    /\ dueIn = [payment |-> [status |-> "pending", deposit_amount |-> 0, final_amount |-> 0,
                              payment_plan |-> [deposit_deadline |-> 0,
                                                final_payment_deadline |-> 0]],
                now |-> 0]
    /\ dueOut = NotAsked

NoCall == [action |-> "none", ip |-> 0, limited |-> FALSE, nth |-> 0]

InitRateIdle ==
    /\ cache = <<>>
    /\ seconds = 0
    /\ inflight = <<>>
    /\ served = <<>>
    /\ lastCall = NoCall

NoSettingsCall == [call |-> "none", instance |-> <<>>, nth |-> 0]

InitSingletonIdle ==
    /\ SiteSettingsRows = <<>>
    /\ settingsOut = NoSettingsCall

InitAuxIdle ==
    /\ InitRateIdle
    /\ InitSingletonIdle
    /\ worker = <<>>

\* SiteSettings as its field defaults create it.
DefaultSettings ==
    [payment_reminder_enabled |-> TRUE,
     payment_reminder_days_before_list |-> <<"7", ",", "3", ",", "1">>,
     course_details_enabled |-> TRUE,
     course_details_days_before |-> 7,
     session_reminder_enabled |-> TRUE,
     session_reminder_days_before |-> 1,
     session_reminder_per_course |-> "first_only",
     reminder_test_mode |-> FALSE,
     reminder_test_email |-> "hannah@hortuscognitor.co.uk"]

NoRun == [command |-> "none", dry_run |-> FALSE, force |-> FALSE, day |-> 0, nth |-> 0,
          outcome |-> "none", sent |-> 0, skipped |-> 0, errors |-> 0]

InitRemIdle ==
    /\ Course = <<>>
    /\ CourseSession = <<>>
    /\ SiteSettings = DefaultSettings
    /\ EmailReminder = <<>>
    /\ outbox = <<>>
    /\ today = 0
    /\ lastRun = NoRun

Init ==
    /\ InitPay
    /\ InitRemIdle
    /\ rounding = "half_even"
    /\ InitSaveIdle
    /\ InitDueIdle
    /\ InitAuxIdle
    /\ InitDaysIdle

\* The payment whose requests are also tried with a failing database and
\* whose status the admin edits; further payments take the plain paths.
Probed == {Min(PaymentIds)}

\* The inputs a handler does not read are not enumerated.
Next ==
    \/ /\ \E outcome \in CheckoutOutcomes :
          \E plan \in (IF outcome \in {"ok", "stripe_error"} THEN PlanIds ELSE {"full"}) :
          \E intentAtCreate \in (IF outcome = "ok" THEN BOOLEAN ELSE {FALSE}) :
             create_checkout_session(outcome, "basic", plan, "ann@example.org",
                                     intentAtCreate)
       /\ UNCHANGED <<rounding, saveVars, daysVars, remVars, dueVars, auxVars>>
    \/ /\ \E p \in PaymentIds : CustomerPays(p)
       /\ UNCHANGED <<rounding, saveVars, daysVars, remVars, dueVars, auxVars>>
    \/ /\ \E sid \in PaymentIds \cup {0} :
          \E dbError \in (IF sid \in Probed /\ stripeSession[sid].created
                          THEN BOOLEAN ELSE {FALSE}) :
             payment_success(sid, dbError)
       /\ UNCHANGED <<rounding, saveVars, daysVars, remVars, dueVars, auxVars>>
    \/ /\ \E verified \in BOOLEAN :
          \E type \in (IF verified THEN EventTypes ELSE {"payment_intent.succeeded"}) :
          \E pi \in IntentIds :
          \E dbError \in (IF /\ verified
                             /\ pi \notin PaymentIds \ Probed
                             /\ type # "charge.refunded"
                          THEN BOOLEAN ELSE {FALSE}) :
             stripe_webhook(verified, type, pi, dbError)
       /\ UNCHANGED <<rounding, saveVars, daysVars, remVars, dueVars, auxVars>>
    \/ /\ \E p \in Probed, st \in {"overdue", "cancelled"} : AdminSetStatus(p, st)
       /\ UNCHANGED <<rounding, saveVars, daysVars, remVars, dueVars, auxVars>>

Spec == Init /\ [][Next]_vars

-----------------------------------------------------------------------------
(* CoursePayment.save on its own: the amounts of one payment, for the tier  *)
(* prices and the plans an administrator can enter                         *)

\* PricingTier.price, in pence
Prices == {22500, 32500, 47500, 3333, 9999}
\* PaymentPlan.deposit_percentage, in 1/100 of a percent
Percentages == {0, 1250, 3333, 5000, 10000}

NotSaved == [done |-> FALSE]

InitSave ==
    /\ InitPay
    /\ InitRemIdle
    /\ InitDaysIdle
    /\ InitDueIdle
    /\ InitAuxIdle
    /\ rounding \in RoundingModes
    /\ saveIn \in [price : Prices, name : PlanIds, pct : Percentages]
    /\ saveOut = NotSaved

\* course_payment.save(): the instance's amounts and the row written.
Save ==
    /\ saveOut' = [done |-> TRUE,
                   instance |-> SaveAmounts(saveIn.price, saveIn.name, saveIn.pct),
                   stored |-> StoredAmounts(saveIn.price, saveIn.name, saveIn.pct,
                                            rounding)]
    /\ UNCHANGED saveIn

\* PaymentPlanAdmin: the plan's percentage is edited; the payment's amounts
\* are those of its last save until it is saved again.
EditPlan(pct) ==
    /\ saveOut.done
    /\ pct # saveIn.pct
    /\ saveIn' = [saveIn EXCEPT !.pct = pct]
    /\ saveOut' = NotSaved

\* PricingTierAdmin: the tier's price is edited.
EditTier(price) ==
    /\ saveOut.done
    /\ price # saveIn.price
    /\ saveIn' = [saveIn EXCEPT !.price = price]
    /\ saveOut' = NotSaved

NextSave ==
    \/ /\ Save
       /\ UNCHANGED <<payVars, rounding, daysVars, remVars, dueVars, auxVars>>
    \/ /\ \E pct \in Percentages : EditPlan(pct)
       /\ UNCHANGED <<payVars, rounding, daysVars, remVars, dueVars, auxVars>>
    \/ /\ \E price \in Prices : EditTier(price)
       /\ UNCHANGED <<payVars, rounding, daysVars, remVars, dueVars, auxVars>>

SpecSave == InitSave /\ [][NextSave]_vars

-----------------------------------------------------------------------------
(* SiteSettings.get_payment_reminder_days_list.  A string is a sequence of  *)
(* characters.                                                             *)

MaxTokens == 5

Digits == {"0", "1", "2", "3", "4", "5", "6", "7", "8", "9"}
DigitValue(c) ==
    CASE c = "0" -> 0 [] c = "1" -> 1 [] c = "2" -> 2 [] c = "3" -> 3
      [] c = "4" -> 4 [] c = "5" -> 5 [] c = "6" -> 6 [] c = "7" -> 7
      [] c = "8" -> 8 [] c = "9" -> 9

\* str.strip()
RECURSIVE LStrip(_)
LStrip(s) == IF s # <<>> /\ Head(s) = " " THEN LStrip(Tail(s)) ELSE s
RECURSIVE RStrip(_)
RStrip(s) ==
    IF s # <<>> /\ s[Len(s)] = " " THEN RStrip(SubSeq(s, 1, Len(s) - 1)) ELSE s
Strip(s) == RStrip(LStrip(s))

\* str.split(','): the pieces between the commas, empty pieces kept
RECURSIVE SplitFrom(_, _, _)
SplitFrom(s, i, piece) ==
    IF i > Len(s) THEN <<piece>>
    ELSE IF s[i] = "," THEN <<piece>> \o SplitFrom(s, i + 1, <<>>)
    ELSE SplitFrom(s, i + 1, Append(piece, s[i]))
Split(s) == SplitFrom(s, 1, <<>>)

\* int(x): x stripped must be decimal digits, with a sign at most
IsInt(x) ==
    LET t == Strip(x)
        d == IF t # <<>> /\ Head(t) \in {"-", "+"} THEN Tail(t) ELSE t
    IN  d # <<>> /\ \A i \in 1..Len(d) : d[i] \in Digits

RECURSIVE DigitsValue(_, _)
DigitsValue(d, acc) ==
    IF d = <<>> THEN acc ELSE DigitsValue(Tail(d), 10 * acc + DigitValue(Head(d)))

ToInt(x) ==
    LET t == Strip(x)
    IN  IF Head(t) = "-" THEN 0 - DigitsValue(Tail(t), 0)
        ELSE IF Head(t) = "+" THEN DigitsValue(Tail(t), 0)
        ELSE DigitsValue(t, 0)

Max(S) == CHOOSE x \in S : \A y \in S : y <= x

RECURSIVE SortedForward(_)
SortedForward(S) ==
    IF S = {} THEN <<>> ELSE <<Min(S)>> \o SortedForward(S \ {Min(S)})

\* sorted(list(set(days_list)), reverse=True)
RECURSIVE SortedReverse(_)
SortedReverse(S) ==
    IF S = {} THEN <<>> ELSE <<Max(S)>> \o SortedReverse(S \ {Max(S)})

get_payment_reminder_days_list(text) ==
    LET days_str == Strip(text)
        pieces == Split(days_str)
        kept == SelectSeq(pieces, LAMBDA x : Strip(x) # <<>>)
    IN  IF days_str = <<>> THEN <<7>>
        ELSE IF \E i \in 1..Len(kept) : ~IsInt(kept[i]) THEN <<7>>  \* ValueError
        ELSE SortedReverse({ToInt(kept[i]) : i \in 1..Len(kept)})

\* What an administrator types: entries joined by commas.  An entry is the
\* text typed and the integer it is meant to be; the last two entries are no
\* integers.
NotAnInt == 0 - 1000
Entries ==
    {[text |-> <<"7">>, value |-> 7],
     [text |-> <<"3">>, value |-> 3],
     [text |-> <<"1">>, value |-> 1],
     [text |-> <<" ", "1", "4", " ">>, value |-> 14],
     [text |-> <<"x">>, value |-> NotAnInt],
     [text |-> <<>>, value |-> NotAnInt]}

RECURSIVE Join(_)
Join(ts) ==
    IF ts = <<>> THEN <<>>
    ELSE IF Len(ts) = 1 THEN ts[1].text
    ELSE ts[1].text \o <<",">> \o Join(Tail(ts))

EntryLists == UNION {[1..n -> Entries] : n \in 1..MaxTokens}

InitDays ==
    /\ InitPay
    /\ InitRemIdle
    /\ InitSaveIdle
    /\ InitDueIdle
    /\ InitAuxIdle
    /\ rounding = "half_even"
    /\ \E ts \in EntryLists : daysIn = [text |-> Join(ts), tokens |-> ts]
    /\ daysOut = [done |-> FALSE, days |-> <<>>]

GetDays ==
    /\ ~daysOut.done
    /\ daysOut' = [done |-> TRUE, days |-> get_payment_reminder_days_list(daysIn.text)]
    /\ UNCHANGED daysIn

NextDays ==
    /\ GetDays
    /\ UNCHANGED <<payVars, rounding, saveVars, remVars, dueVars, auxVars>>

SpecDays == InitDays /\ [][NextDays]_vars

-----------------------------------------------------------------------------
(* The reminder batches: tables and what the three commands share *)

NumCourses == 2
NumSessions == 3
NumBookings == 3
MaxDay == 1
MaxRuns == 2

CourseIds == 1..NumCourses
SessionIds == 1..NumSessions
BookingIds == 1..NumBookings
Days == 0..MaxDay

\* PaymentPlan.final_payment_deadline of both plans of setup_pricing
\* (9 January 2026), as a day of the model's calendar.
FinalPaymentDeadline == 3
PlanFinalDeadline(pl) == FinalPaymentDeadline

\* The names of the URL patterns of hortus_cognitor/urls.py and courses/urls.py.
UrlNames ==
    {"simple_home", "health_check", "home", "about", "contact", "privacy_policy",
     "regenerative_movement_course", "course_list", "course_detail", "book_course",
     "payment_selection", "create_checkout_session", "payment_success",
     "payment_cancel", "stripe_webhook"}

\* django.urls.reverse: a name of no pattern raises NoReverseMatch.
Reverse(name) == name \in UrlNames

\* The fields and properties of a Course instance, and the attributes of a
\* Booking instance that relate it to other tables; any other attribute
\* raises AttributeError.
CourseAttributes ==
    {"title", "subtitle", "hero_image", "description", "what_you_will_experience",
     "course_structure", "location", "accessibility", "who_this_is_for",
     "what_you_will_gain", "start_date", "duration", "max_participants", "price",
     "slug", "is_active", "created_at", "updated_at", "confirmed_bookings_count",
     "spaces_left", "sessions", "instructors", "bookings", "pricing_tiers"}
BookingRelations == {"course", "payment"}

\* The payment of a booking (one to one) is kept under the booking's id.
PaymentOfBooking(b) ==
    IF b \in DOMAIN CoursePayment /\ CoursePayment[b].exists THEN b ELSE 0

\* An EmailReminder row; 0 stands for a NULL foreign key.
Reminder(payment, session, type, days, to, ok) ==
    [course_payment |-> payment, course_session |-> session, reminder_type |-> type,
     days_before_sent |-> days, recipient_email |-> to, successful |-> ok,
     error_message |-> ""]

\* str(e) of the exception a refused delivery raises
ErrorText == "Connection refused"

\* The row the except block writes for the row rec of the try block.
FailedRecord(rec) == [rec EXCEPT !.successful = FALSE, !.error_message = ErrorText]

\* An e-mail: its template, its recipient, the objects of its context and
\* the day it was sent.
Mail(type, to, b, session) ==
    [template |-> type, to |-> to, booking |-> b, course_session |-> session,
     sent_on |-> today]

\* What a run has done so far: the table, the mail server's queue, the
\* three counters, and whether an exception has left handle().
StartOfRun ==
    [log |-> EmailReminder, outbox |-> outbox, sent |-> 0, skipped |-> 0,
     errors |-> 0, crashed |-> FALSE]

Skip(acc) == [acc EXCEPT !.skipped = @ + 1]
Crash(acc) == [acc EXCEPT !.crashed = TRUE]

\* The try block of the three commands: render and send, then record; a
\* dry run only counts; an exception of the send is counted and recorded.
TrySend(acc, dry_run, raises, mail, rec) ==
    IF dry_run THEN [acc EXCEPT !.sent = @ + 1]
    ELSE IF raises
         THEN [acc EXCEPT !.errors = @ + 1,
                          !.log = Append(@, FailedRecord(rec))]
         ELSE [acc EXCEPT !.outbox = Append(@, mail),
                          !.log = Append(@, rec),
                          !.sent = @ + 1]

Recipient(b) ==
    IF SiteSettings.reminder_test_mode THEN SiteSettings.reminder_test_email
    ELSE Booking[b].email

\* The rows of a queryset in the order of their primary keys.
RECURSIVE OrderById(_)
OrderById(S) ==
    IF S = {} THEN <<>> ELSE <<Min(S)>> \o OrderById(S \ {Min(S)})

\* Booking.Meta.ordering is -created_at: the newest booking comes first.
OrderNewestFirst(S) == SortedReverse(S)

ConfirmedBookings(c) ==
    {b \in BookingIds : Booking[b].exists /\ Booking[b].course = c
                        /\ Booking[b].status = "confirmed"}

\* The summary of a run, as the command prints it.
Summary(cmd, dry_run, force, outcome, acc) ==
    [command |-> cmd, dry_run |-> dry_run, force |-> force, day |-> today,
     nth |-> lastRun.nth + 1, outcome |-> outcome,
     sent |-> acc.sent, skipped |-> acc.skipped, errors |-> acc.errors]

Finish(cmd, dry_run, force, outcome, acc) ==
    /\ lastRun.nth < MaxRuns
    /\ EmailReminder' = acc.log
    /\ outbox' = acc.outbox
    /\ lastRun' = Summary(cmd, dry_run, force, outcome, acc)
    /\ UNCHANGED <<Course, CourseSession, SiteSettings, today>>

\* Midnight passes.
NextDay ==
    /\ today < MaxDay
    /\ today' = today + 1
    /\ UNCHANGED <<Course, CourseSession, SiteSettings, EmailReminder, outbox, lastRun>>

-----------------------------------------------------------------------------
(* send_payment_reminders *)

PendingPayments ==
    {p \in PaymentIds : /\ CoursePayment[p].exists
                        /\ CoursePayment[p].deposit_paid_at # 0
                        /\ CoursePayment[p].final_paid_at = 0}

InList(x, list) == \E i \in 1..Len(list) : list[i] = x

ExistingPaymentReminder(log, p, days) ==
    \E i \in 1..Len(log) : /\ log[i].course_payment = p
                           /\ log[i].reminder_type = "payment_reminder"
                           /\ log[i].days_before_sent = days

\* The body of the loop over pending_payments, for the payment p.
PaymentStep(acc, p, dry_run, force, failing) ==
    LET days_until_due == PlanFinalDeadline(CoursePayment[p].payment_plan) - today
        should_send == InList(days_until_due,
            get_payment_reminder_days_list(SiteSettings.payment_reminder_days_before_list))
    IN  IF ~should_send THEN acc
        ELSE IF ~force /\ ExistingPaymentReminder(acc.log, p, days_until_due)
             THEN Skip(acc)
        ELSE IF ~Reverse("course_payment") THEN Crash(acc)
        ELSE TrySend(acc, dry_run, p \in failing,
                     Mail("payment_reminder", Recipient(p), p, 0),
                     Reminder(p, 0, "payment_reminder", days_until_due,
                              Recipient(p), TRUE))

RECURSIVE PaymentLoop(_, _, _, _, _)
PaymentLoop(acc, todo, dry_run, force, failing) ==
    IF todo = <<>> \/ acc.crashed THEN acc
    ELSE PaymentLoop(PaymentStep(acc, Head(todo), dry_run, force, failing),
                     Tail(todo), dry_run, force, failing)

PaymentRun(dry_run, force, failing) ==
    PaymentLoop(StartOfRun, OrderById(PendingPayments), dry_run, force, failing)

PaymentOutcome(acc) ==
    IF ~SiteSettings.payment_reminder_enabled THEN "disabled"
    ELSE IF PendingPayments = {} THEN "nothing"
    ELSE IF acc.crashed THEN "crashed" ELSE "completed"

\* handle() of send_payment_reminders; failing holds the bookings whose
\* e-mail the mail server refuses.
send_payment_reminders(dry_run, force, failing) ==
    LET acc == IF SiteSettings.payment_reminder_enabled
               THEN PaymentRun(dry_run, force, failing) ELSE StartOfRun
    IN  Finish("send_payment_reminders", dry_run, force, PaymentOutcome(acc), acc)

-----------------------------------------------------------------------------
(* send_session_reminders *)

UpcomingSessions(target_date) ==
    {s \in SessionIds : CourseSession[s].date = target_date}

SessionsOf(c) == {s \in SessionIds : CourseSession[s].course = c}

\* order_by('date', 'start_time')
Earlier(s, t) ==
    \/ CourseSession[s].date < CourseSession[t].date
    \/ /\ CourseSession[s].date = CourseSession[t].date
       /\ CourseSession[s].start_time < CourseSession[t].start_time

\* The loop visits the sessions in that order; rows equal in date and start
\* time are visited in the order of their primary keys.
RECURSIVE OrderByDateTime(_)
OrderByDateTime(S) ==
    IF S = {} THEN <<>>
    ELSE LET m == Min({s \in S : \A t \in S : ~Earlier(t, s)})
         IN  <<m>> \o OrderByDateTime(S \ {m})

\* course.sessions.order_by('date', 'start_time').first(): of the rows equal
\* in date and start time the database returns any one.
FirstSessionChoices(c) ==
    {s \in SessionsOf(c) : \A t \in SessionsOf(c) : ~Earlier(t, s)}

FirstPicks ==
    {f \in [CourseIds -> SessionIds \cup {0}] :
        \A c \in CourseIds : IF SessionsOf(c) = {} THEN f[c] = 0
                             ELSE f[c] \in FirstSessionChoices(c)}

FrequencySkipsNever(reminder_frequency, is_first_session) == FALSE

\* The frequency filter: is the session passed over?
FrequencySkips(reminder_frequency, is_first_session) ==
    reminder_frequency = "first_only" /\ ~is_first_session

ExistingSessionReminder(log, s, email, days) ==
    \E i \in 1..Len(log) : /\ log[i].course_session = s
                           /\ log[i].reminder_type = "session_reminder"
                           /\ log[i].recipient_email = email
                           /\ log[i].days_before_sent = days

\* The body of the loop over confirmed_bookings, for the booking b.
SessionBookingStep(acc, s, b, dry_run, force, failing) ==
    LET days_before == SiteSettings.session_reminder_days_before
    IN  IF ~force /\ ExistingSessionReminder(acc.log, s, Booking[b].email, days_before)
        THEN Skip(acc)
        ELSE TrySend(acc, dry_run, b \in failing,
                     Mail("session_reminder", Recipient(b), b, s),
                     Reminder(0, s, "session_reminder", days_before,
                              Recipient(b), TRUE))

RECURSIVE SessionBookingLoop(_, _, _, _, _, _)
SessionBookingLoop(acc, todo, s, dry_run, force, failing) ==
    IF todo = <<>> THEN acc
    ELSE SessionBookingLoop(
             SessionBookingStep(acc, s, Head(todo), dry_run, force, failing),
             Tail(todo), s, dry_run, force, failing)

\* The body of the loop over upcoming_sessions, for the session s.
SessionStep(acc, s, first, dry_run, force, failing) ==
    LET course == CourseSession[s].course
        is_first_session == (first[course] = s)
        confirmed_bookings == ConfirmedBookings(course)
    IN  IF FrequencySkips(SiteSettings.session_reminder_per_course, is_first_session)
        THEN Skip(acc)
        ELSE IF confirmed_bookings = {} THEN Skip(acc)
        ELSE SessionBookingLoop(acc, OrderNewestFirst(confirmed_bookings), s,
                                dry_run, force, failing)

RECURSIVE SessionLoop(_, _, _, _, _, _)
SessionLoop(acc, todo, first, dry_run, force, failing) ==
    IF todo = <<>> THEN acc
    ELSE SessionLoop(SessionStep(acc, Head(todo), first, dry_run, force, failing),
                     Tail(todo), first, dry_run, force, failing)

SessionTargetDate == today + SiteSettings.session_reminder_days_before

SessionRun(first, dry_run, force, failing) ==
    SessionLoop(StartOfRun, OrderByDateTime(UpcomingSessions(SessionTargetDate)),
                first, dry_run, force, failing)

SessionOutcome ==
    IF ~SiteSettings.session_reminder_enabled THEN "disabled"
    ELSE IF UpcomingSessions(SessionTargetDate) = {} THEN "nothing"
    ELSE "completed"

\* handle() of send_session_reminders; first is the first session the
\* database returns for each course.
send_session_reminders(first, dry_run, force, failing) ==
    LET acc == IF SiteSettings.session_reminder_enabled
               THEN SessionRun(first, dry_run, force, failing) ELSE StartOfRun
    IN  Finish("send_session_reminders", dry_run, force, SessionOutcome, acc)

-----------------------------------------------------------------------------
(* send_course_details *)

StartingCourses(target_date) ==
    {c \in CourseIds : Course[c].start_date = target_date /\ Course[c].is_active}

ExistingDetailsReminder(log, payment, email) ==
    \E i \in 1..Len(log) : /\ log[i].course_payment = payment
                           /\ log[i].reminder_type = "course_details"
                           /\ log[i].recipient_email = email

\* The body of the loop over confirmed_bookings, for the booking b.
\* booking.payments is read before the try block, in it after the send, and
\* in the except block: where the attribute is missing, the first read and
\* the last leave handle() with AttributeError.
DetailsBookingStep(acc, b, dry_run, force, failing) ==
    LET has_payments == "payments" \in BookingRelations
        payment == PaymentOfBooking(b)
        days_before == SiteSettings.course_details_days_before
        rec == Reminder(payment, 0, "course_details", days_before, Recipient(b), TRUE)
        Record(a, ok) == IF payment = 0 THEN a
                         ELSE [a EXCEPT !.log = Append(@, IF ok THEN rec
                                                       ELSE FailedRecord(rec))]
        Counted(a) == [a EXCEPT !.errors = @ + 1]
        delivered == [acc EXCEPT !.outbox =
                         Append(@, Mail("course_details", Recipient(b), b, 0))]
    IN  IF ~force /\ ~has_payments THEN Crash(acc)
        ELSE IF /\ ~force
                /\ payment # 0
                /\ ExistingDetailsReminder(acc.log, payment, Booking[b].email)
             THEN Skip(acc)
        ELSE IF dry_run THEN [acc EXCEPT !.sent = @ + 1]
        ELSE IF b \in failing
             THEN IF has_payments THEN Record(Counted(acc), FALSE)
                  ELSE Crash(Counted(acc))
        ELSE IF has_payments
             THEN [Record(delivered, TRUE) EXCEPT !.sent = @ + 1]
             ELSE Crash(Counted(delivered))

RECURSIVE DetailsBookingLoop(_, _, _, _, _)
DetailsBookingLoop(acc, todo, dry_run, force, failing) ==
    IF todo = <<>> \/ acc.crashed THEN acc
    ELSE DetailsBookingLoop(
             DetailsBookingStep(acc, Head(todo), dry_run, force, failing),
             Tail(todo), dry_run, force, failing)

\* The body of the loop over starting_courses, for the course c.
DetailsCourseStep(acc, c, dry_run, force, failing) ==
    IF ConfirmedBookings(c) = {} THEN Skip(acc)
    ELSE IF "end_date" \notin CourseAttributes THEN Crash(acc)
    ELSE DetailsBookingLoop(acc, OrderNewestFirst(ConfirmedBookings(c)),
                            dry_run, force, failing)

RECURSIVE DetailsLoop(_, _, _, _, _)
DetailsLoop(acc, todo, dry_run, force, failing) ==
    IF todo = <<>> \/ acc.crashed THEN acc
    ELSE DetailsLoop(DetailsCourseStep(acc, Head(todo), dry_run, force, failing),
                     Tail(todo), dry_run, force, failing)

DetailsTargetDate == today + SiteSettings.course_details_days_before

DetailsRun(dry_run, force, failing) ==
    DetailsLoop(StartOfRun, OrderById(StartingCourses(DetailsTargetDate)),
                dry_run, force, failing)

DetailsOutcome(acc) ==
    IF ~SiteSettings.course_details_enabled THEN "disabled"
    ELSE IF StartingCourses(DetailsTargetDate) = {} THEN "nothing"
    ELSE IF acc.crashed THEN "crashed" ELSE "completed"

\* handle() of send_course_details
send_course_details(dry_run, force, failing) ==
    LET acc == IF SiteSettings.course_details_enabled
               THEN DetailsRun(dry_run, force, failing) ELSE StartOfRun
    IN  Finish("send_course_details", dry_run, force, DetailsOutcome(acc), acc)

-----------------------------------------------------------------------------
(* The data the batches run on *)

\* Courses, sessions and bookings come in pairs: rows 1 and 2 belong to
\* course 1, rows 3 and 4 to course 2, and so on.
CourseOf(n) == IF (n + 1) \div 2 > NumCourses THEN NumCourses ELSE (n + 1) \div 2

CourseRow(c) ==
    [start_date |-> DefaultSettings.course_details_days_before + (c - 1),
     is_active |-> TRUE]

\* A session's date and start time (the hour).
SessionSlots == {<<1, 10>>, <<2, 9>>, <<2, 10>>}
\* The fixed sessions take place on day 2, at 10 the first and later the others.
FixedSlot(s) == <<2, 9 + s>>
SessionRow(s, slot) ==
    [course |-> CourseOf(s), session_number |-> s, date |-> slot[1],
     start_time |-> slot[2]]

BookingRow(b, email, status) ==
    [exists |-> TRUE, course |-> CourseOf(b), email |-> email, status |-> status]

\* A payment on the installment plan: not paid, deposit paid, both paid.
PaymentStages == {"pending", "deposit_paid", "fully_paid"}
PaymentRow(p, stage) ==
    SavedRow([NoPayment EXCEPT
        !.exists = TRUE,
        !.payment_plan = "installment",
        !.status = stage,
        !.stripe_payment_intent_id = IF stage = "pending" THEN 0 ELSE IntentOf(p),
        !.deposit_paid_at = IF stage = "pending" THEN 0 ELSE 1,
        !.final_paid_at = IF stage = "fully_paid" THEN 2 ELSE 0])


InitRun ==
    /\ InitLedgerIdle
    /\ InitSaveIdle
    /\ InitDueIdle
    /\ InitAuxIdle
    /\ InitDaysIdle
    /\ rounding = "half_even"
    /\ Course = [c \in CourseIds |-> CourseRow(c)]
    /\ EmailReminder = <<>>
    /\ outbox = <<>>
    /\ today = 0
    /\ lastRun = NoRun

\* The mail server accepts every e-mail or refuses those of the first booking.
Deliveries(dry_run) ==
    IF dry_run THEN {{}} ELSE {{}, {1}}

-----------------------------------------------------------------------------
(* The payment-reminder batch, run by cron or by hand on any day *)

PaymentSettings ==
    {DefaultSettings,
     [DefaultSettings EXCEPT !.reminder_test_mode = TRUE],
     [DefaultSettings EXCEPT !.payment_reminder_enabled = FALSE]}

InitPaymentReminders ==
    /\ InitRun
    /\ CourseSession = [s \in SessionIds |-> SessionRow(s, FixedSlot(s))]
    /\ Booking = [b \in BookingIds |-> BookingRow(b, "ann@example.org", "confirmed")]
    /\ \E stage \in [PaymentIds -> PaymentStages] :
          CoursePayment = [p \in PaymentIds |-> PaymentRow(p, stage[p])]
    /\ SiteSettings \in PaymentSettings

NextPaymentReminders ==
    \/ /\ \E dry_run \in BOOLEAN, force \in BOOLEAN :
          \E failing \in Deliveries(dry_run) :
             send_payment_reminders(dry_run, force, failing)
       /\ UNCHANGED <<payVars, rounding, saveVars, daysVars, dueVars, auxVars>>
    \/ /\ NextDay
       /\ UNCHANGED <<payVars, rounding, saveVars, daysVars, dueVars, auxVars>>

SpecPaymentReminders == InitPaymentReminders /\ [][NextPaymentReminders]_vars

-----------------------------------------------------------------------------
(* The session-reminder batch *)

SessionSettings ==
    {DefaultSettings,
     [DefaultSettings EXCEPT !.session_reminder_per_course = "all_sessions"],
     [DefaultSettings EXCEPT !.reminder_test_mode = TRUE],
     [DefaultSettings EXCEPT !.session_reminder_enabled = FALSE]}

\* The second session of the first course takes any slot.  The second booking
\* of the first course may share the e-mail address of the first and may be
\* cancelled; the first booking of the second course may be pending.
EmailChoices(b) == IF b = 2 THEN Emails ELSE {"ann@example.org"}
StatusChoices(b) ==
    IF b = 2 THEN {"confirmed", "cancelled"}
    ELSE IF b = 3 THEN {"confirmed", "pending"} ELSE {"confirmed"}

InitSessionReminders ==
    /\ InitRun
    /\ \E slot \in SessionSlots :
          CourseSession = [s \in SessionIds |->
              SessionRow(s, IF s = 2 THEN slot ELSE FixedSlot(s))]
    /\ \E email \in {f \in [BookingIds -> Emails] :
                        \A b \in BookingIds : f[b] \in EmailChoices(b)} :
       \E status \in {f \in [BookingIds -> BookingStatuses] :
                         \A b \in BookingIds : f[b] \in StatusChoices(b)} :
          Booking = [b \in BookingIds |-> BookingRow(b, email[b], status[b])]
    /\ CoursePayment = [p \in PaymentIds |-> PaymentRow(p, "deposit_paid")]
    /\ SiteSettings \in SessionSettings

NextSessionReminders ==
    \/ /\ \E first \in FirstPicks :
          \E dry_run \in BOOLEAN, force \in BOOLEAN :
          \E failing \in Deliveries(dry_run) :
             send_session_reminders(first, dry_run, force, failing)
       /\ UNCHANGED <<payVars, rounding, saveVars, daysVars, dueVars, auxVars>>
    \/ /\ NextDay
       /\ UNCHANGED <<payVars, rounding, saveVars, daysVars, dueVars, auxVars>>

SpecSessionReminders == InitSessionReminders /\ [][NextSessionReminders]_vars

-----------------------------------------------------------------------------
(* The course-details batch *)

InitCourseDetails ==
    /\ InitRun
    /\ CourseSession = [s \in SessionIds |-> SessionRow(s, FixedSlot(s))]
    /\ \E status \in {f \in [BookingIds -> BookingStatuses] :
                         \A b \in BookingIds : f[b] \in StatusChoices(b)} :
          Booking = [b \in BookingIds |-> BookingRow(b, "ann@example.org", status[b])]
    /\ CoursePayment = [p \in PaymentIds |-> PaymentRow(p, "deposit_paid")]
    /\ SiteSettings \in {DefaultSettings,
                         [DefaultSettings EXCEPT !.course_details_enabled = FALSE]}

NextCourseDetails ==
    \/ /\ \E dry_run \in BOOLEAN, force \in BOOLEAN :
          \E failing \in Deliveries(dry_run) :
             send_course_details(dry_run, force, failing)
       /\ UNCHANGED <<payVars, rounding, saveVars, daysVars, dueVars, auxVars>>
    \/ /\ NextDay
       /\ UNCHANGED <<payVars, rounding, saveVars, daysVars, dueVars, auxVars>>

SpecCourseDetails == InitCourseDetails /\ [][NextCourseDetails]_vars

-----------------------------------------------------------------------------
(* CoursePayment.is_overdue and CoursePayment.next_payment_due on their own *)

\* the last date the properties are read on; dates are counted in days
MaxDate == 2
Dates == 0..MaxDate

\* (deposit_amount, final_amount) as save() stores them, in pence
AmountPairs == {<<22500, 0>>, <<11250, 11250>>, <<5625, 16875>>}

is_overdueOnTheDay(self, now) ==
    \/ self.status = "pending" /\ self.payment_plan.deposit_deadline <= now
    \/ self.status = "deposit_paid" /\ self.payment_plan.final_payment_deadline <= now

\* CoursePayment.is_overdue, with now = timezone.now().date()
is_overdue(self, now) ==
    IF self.status = "pending" /\ self.payment_plan.deposit_deadline < now
    THEN TRUE
    ELSE IF self.status = "deposit_paid"
            /\ self.payment_plan.final_payment_deadline < now
         THEN TRUE
         ELSE FALSE

next_payment_dueOutstanding(self) ==
    IF self.status = "pending" THEN self.deposit_amount
    ELSE IF self.status \in {"deposit_paid", "overdue"} THEN self.final_amount
    ELSE 0

\* CoursePayment.next_payment_due
next_payment_due(self) ==
    IF self.status = "pending" THEN self.deposit_amount
    ELSE IF self.status = "deposit_paid" THEN self.final_amount
    ELSE 0

InitDue ==
    /\ InitPay
    /\ InitRemIdle
    /\ InitSaveIdle
    /\ InitDaysIdle
    /\ InitAuxIdle
    /\ rounding = "half_even"
    /\ \E st \in PaymentStatuses, am \in AmountPairs, dd \in Dates, fd \in Dates,
          now \in Dates :
          dueIn = [payment |-> [status |-> st, deposit_amount |-> am[1],
                                final_amount |-> am[2],
                                payment_plan |-> [deposit_deadline |-> dd,
                                                  final_payment_deadline |-> fd]],
                   now |-> now]
    /\ dueOut = NotAsked

\* payment.is_overdue is read (the admin's list and detail pages).
ReadIsOverdue ==
    /\ ~dueOut.asked_overdue
    /\ dueOut' = [dueOut EXCEPT !.asked_overdue = TRUE,
                                !.overdue = is_overdue(dueIn.payment, dueIn.now)]
    /\ UNCHANGED dueIn

\* payment.next_payment_due is read.
ReadNextPaymentDue ==
    /\ ~dueOut.asked_due
    /\ dueOut' = [dueOut EXCEPT !.asked_due = TRUE,
                                !.due = next_payment_due(dueIn.payment)]
    /\ UNCHANGED dueIn

NextDue ==
    \/ /\ ReadIsOverdue
       /\ UNCHANGED <<payVars, rounding, saveVars, daysVars, remVars, auxVars>>
    \/ /\ ReadNextPaymentDue
       /\ UNCHANGED <<payVars, rounding, saveVars, daysVars, remVars, auxVars>>

SpecDue == InitDue /\ [][NextDue]_vars

\* Course.confirmed_bookings_count filters the bookings by the status of
\* their payment: is the booking b one of those it counts?
CountedAsConfirmed(b) ==
    /\ b \in DOMAIN CoursePayment
    /\ CoursePayment[b].exists
    /\ CoursePayment[b].status \in {"deposit_paid", "fully_paid"}

confirmed_bookings_count(c) ==
    Cardinality({b \in DOMAIN Booking : /\ Booking[b].exists
                                        /\ Booking[b].course = c
                                        /\ CountedAsConfirmed(b)})

-----------------------------------------------------------------------------
(* is_rate_limited, one call at a time *)

\* limit and window (in seconds) of a rate-limited action, scaled down
Limit == 2
Window == 2
\* the last second of the clock and the number of calls
MaxSeconds == 3
MaxCalls == 4

RateActions == {"booking", "payment"}
ClientIps == {1, 2}

\* f'rate_limit_{action}_{ip}'
cache_key(action, ip) == <<"rate_limit", action, ip>>
CacheKeys == {cache_key(a, ip) : a \in RateActions, ip \in ClientIps}

NoEntry == [value |-> 0, expires |-> 0]

\* cache.get(key, default): an entry is gone once its expiry has come.
cache_get(c, key, default, now) ==
    IF c[key].expires > now THEN c[key].value ELSE default

\* cache.set(key, value, timeout): the entry expires timeout seconds from now.
cache_set(c, key, value, timeout, now) ==
    [c EXCEPT ![key] = [value |-> value, expires |-> now + timeout]]

OverLimitByOne(attempts, limit) == attempts > limit

\* the test of is_rate_limited
OverLimit(attempts, limit) == attempts >= limit

\* The second half of is_rate_limited, for the attempts it has read.
Decide(action, ip, attempts, limit, window) ==
    LET key == cache_key(action, ip)
    IN  /\ lastCall.nth < MaxCalls
        /\ IF OverLimit(attempts, limit)
           THEN /\ lastCall' = [action |-> action, ip |-> ip, limited |-> TRUE,
                                nth |-> lastCall.nth + 1]
                /\ UNCHANGED <<cache, served>>
           ELSE /\ cache' = cache_set(cache, key, attempts + 1, window, seconds)
                /\ served' = [served EXCEPT ![key] = Append(@, seconds)]
                /\ lastCall' = [action |-> action, ip |-> ip, limited |-> FALSE,
                                nth |-> lastCall.nth + 1]
        /\ UNCHANGED seconds

\* is_rate_limited(request, action, limit, window), get and set with no other
\* call in between.
is_rate_limited(action, ip, limit, window) ==
    /\ Decide(action, ip, cache_get(cache, cache_key(action, ip), 0, seconds),
              limit, window)
    /\ UNCHANGED inflight

\* A second passes.
Tick ==
    /\ seconds < MaxSeconds
    /\ seconds' = seconds + 1
    /\ UNCHANGED <<cache, inflight, served, lastCall>>

InitRate ==
    /\ InitPay
    /\ InitRemIdle
    /\ InitSaveIdle
    /\ InitDaysIdle
    /\ InitDueIdle
    /\ InitSingletonIdle
    /\ worker = <<>>
    /\ rounding = "half_even"
    /\ cache = [k \in CacheKeys |-> NoEntry]
    /\ seconds = 0
    /\ inflight = <<>>
    /\ served = [k \in CacheKeys |-> <<>>]
    /\ lastCall = NoCall

\* The requests tried: two addresses for one action, two actions for one
\* address.
Callers == {c \in RateActions \X ClientIps : c[1] = "booking" \/ c[2] = 1}

NextRate ==
    \/ /\ \E call \in Callers : is_rate_limited(call[1], call[2], Limit, Window)
       /\ UNCHANGED <<payVars, rounding, saveVars, daysVars, remVars, dueVars,
                      singletonVars, worker>>
    \/ /\ Tick
       /\ UNCHANGED <<payVars, rounding, saveVars, daysVars, remVars, dueVars,
                      singletonVars, worker>>

SpecRate == InitRate /\ [][NextRate]_vars

-----------------------------------------------------------------------------
(* is_rate_limited called by several requests at once: each call is a
   cache.get and, later, a cache.set *)

\* the requests handled side by side
NumSlots == 3
Slots == 1..NumSlots

Idle == [pc |-> "idle", action |-> "none", ip |-> 0, attempts |-> 0]

\* attempts = cache.get(cache_key, 0)
Get(r, action, ip) ==
    /\ inflight[r].pc = "idle"
    /\ inflight' = [inflight EXCEPT ![r] =
            [pc |-> "read", action |-> action, ip |-> ip,
             attempts |-> cache_get(cache, cache_key(action, ip), 0, seconds)]]
    /\ UNCHANGED <<cache, seconds, served, lastCall>>

\* the test and cache.set(cache_key, attempts + 1, window)
Set(r) ==
    /\ inflight[r].pc = "read"
    /\ Decide(inflight[r].action, inflight[r].ip, inflight[r].attempts, Limit, Window)
    /\ inflight' = [inflight EXCEPT ![r].pc = "done"]

InitRateRace ==
    /\ InitPay
    /\ InitRemIdle
    /\ InitSaveIdle
    /\ InitDaysIdle
    /\ InitDueIdle
    /\ InitSingletonIdle
    /\ worker = <<>>
    /\ rounding = "half_even"
    /\ cache = [k \in CacheKeys |-> NoEntry]
    /\ seconds = 0
    /\ inflight = [r \in Slots |-> Idle]
    /\ served = [k \in CacheKeys |-> <<>>]
    /\ lastCall = NoCall

NextRateRace ==
    \/ /\ \E r \in Slots : \E call \in Callers : Get(r, call[1], call[2])
       /\ UNCHANGED <<payVars, rounding, saveVars, daysVars, remVars, dueVars,
                      singletonVars, worker>>
    \/ /\ \E r \in Slots : Set(r)
       /\ UNCHANGED <<payVars, rounding, saveVars, daysVars, remVars, dueVars,
                      singletonVars, worker>>
    \/ /\ Tick
       /\ UNCHANGED <<payVars, rounding, saveVars, daysVars, remVars, dueVars,
                      singletonVars, worker>>

SpecRateRace == InitRateRace /\ [][NextRateRace]_vars

-----------------------------------------------------------------------------
(* SiteSettings as a singleton: save, delete and load on instances *)

\* the primary keys an instance may carry before it is saved; 0 is None
MaxPk == 2
Pks == 0..MaxPk

StoredPks == DOMAIN SiteSettingsRows

\* the field values an instance is saved with: the switches, each on or off
SavedSettings ==
    {[DefaultSettings EXCEPT !.reminder_test_mode = t,
                             !.payment_reminder_enabled = p,
                             !.course_details_enabled = c] :
        t \in BOOLEAN, p \in BOOLEAN, c \in BOOLEAN}

\* super().save(): the row of the instance's pk is updated, or inserted
\* under the next free key when the pk is None.
Model_save(rows, pk, values) ==
    LET key == IF pk # 0 THEN pk
               ELSE IF DOMAIN rows = {} THEN 1
               ELSE Max(DOMAIN rows) + 1
    IN  [k \in DOMAIN rows \cup {key} |-> IF k = key THEN values ELSE rows[k]]

SiteSettings_saveKeepsPk(rows, pk, values) == Model_save(rows, pk, values)

\* SiteSettings.save: self.pk = 1, then super().save()
SiteSettings_save(rows, pk, values) == Model_save(rows, 1, values)

\* SiteSettings.delete: pass
SiteSettings_delete(rows, pk) == rows

\* settings.save() on an instance with the primary key pk and the values
Save_settings(pk, values) ==
    /\ settingsOut.nth < MaxCalls
    /\ SiteSettingsRows' = SiteSettings_save(SiteSettingsRows, pk, values)
    /\ settingsOut' = [call |-> "save", instance |-> [pk |-> 1, values |-> values],
                       nth |-> settingsOut.nth + 1]

\* settings.delete()
Delete_settings(pk) ==
    /\ settingsOut.nth < MaxCalls
    /\ SiteSettingsRows' = SiteSettings_delete(SiteSettingsRows, pk)
    /\ settingsOut' = [call |-> "delete", instance |-> [pk |-> pk, values |-> <<>>],
                       nth |-> settingsOut.nth + 1]

\* SiteSettings.load(): get_or_create(pk=1)
load ==
    /\ settingsOut.nth < MaxCalls
    /\ SiteSettingsRows' = IF 1 \in StoredPks THEN SiteSettingsRows
                           ELSE SiteSettings_save(SiteSettingsRows, 1, DefaultSettings)
    /\ settingsOut' = [call |-> "load",
                       instance |-> [pk |-> 1, values |-> SiteSettingsRows'[1]],
                       nth |-> settingsOut.nth + 1]

InitSingleton ==
    /\ InitPay
    /\ InitRemIdle
    /\ InitSaveIdle
    /\ InitDaysIdle
    /\ InitDueIdle
    /\ InitRateIdle
    /\ worker = <<>>
    /\ rounding = "half_even"
    /\ SiteSettingsRows = <<>>
    /\ settingsOut = NoSettingsCall

NextSingleton ==
    \/ /\ \E pk \in Pks, values \in SavedSettings : Save_settings(pk, values)
       /\ UNCHANGED <<payVars, rounding, saveVars, daysVars, remVars, dueVars,
                      rateVars, worker>>
    \/ /\ \E pk \in Pks : Delete_settings(pk)
       /\ UNCHANGED <<payVars, rounding, saveVars, daysVars, remVars, dueVars,
                      rateVars, worker>>
    \/ /\ load
       /\ UNCHANGED <<payVars, rounding, saveVars, daysVars, remVars, dueVars,
                      rateVars, worker>>

SpecSingleton == InitSingleton /\ [][NextSingleton]_vars

-----------------------------------------------------------------------------
(* Invocations of the batches that run at the same time: each is a process
   of its own, and the table and the mail server are all they share.  An
   invocation is followed through the database and mail operations of its
   loop: the query for an existing reminder, the send, the create. *)

NumWorkers == 2
Workers == 1..NumWorkers

BatchCommands == {"send_payment_reminders", "send_session_reminders"}

IdleWorker == [pc |-> "idle", command |-> "none", todo |-> <<>>]

Target(s, b) == [session |-> s, booking |-> b]

\* The (session, booking) pairs in the order the two nested loops of
\* send_session_reminders visit them.
RECURSIVE SessionTargets(_, _)
SessionTargets(sessions, first) ==
    IF sessions = <<>> THEN <<>>
    ELSE LET s == Head(sessions)
             course == CourseSession[s].course
             bookings == OrderNewestFirst(ConfirmedBookings(course))
             mine == IF FrequencySkips(SiteSettings.session_reminder_per_course,
                                       first[course] = s)
                     THEN <<>>
                     ELSE [i \in 1..Len(bookings) |-> Target(s, bookings[i])]
         IN  mine \o SessionTargets(Tail(sessions), first)

\* The payments the loop of send_payment_reminders visits.
PaymentTargets ==
    LET todo == OrderById(PendingPayments)
    IN  [i \in 1..Len(todo) |-> Target(0, todo[i])]

\* handle() up to its loop: the settings are loaded, the queryset is built.
Start(w, command, first) ==
    /\ worker[w].pc = "idle"
    /\ LET enabled == IF command = "send_session_reminders"
                      THEN SiteSettings.session_reminder_enabled
                      ELSE SiteSettings.payment_reminder_enabled
           todo == IF ~enabled THEN <<>>
                   ELSE IF command = "send_session_reminders"
                   THEN SessionTargets(
                            OrderByDateTime(UpcomingSessions(SessionTargetDate)), first)
                   ELSE PaymentTargets
       IN  worker' = [worker EXCEPT ![w] =
               [pc |-> IF todo = <<>> THEN "done" ELSE "check",
                command |-> command, todo |-> todo]]
    /\ UNCHANGED <<EmailReminder, outbox>>

\* The invocation goes on to the next row of its loop.
Continue(w, pc) ==
    [worker EXCEPT ![w].todo = Tail(@),
                   ![w].pc = IF pc = "check" /\ Tail(worker[w].todo) = <<>>
                             THEN "done" ELSE pc]

DaysOf(w) ==
    IF worker[w].command = "send_session_reminders"
    THEN SiteSettings.session_reminder_days_before
    ELSE PlanFinalDeadline(CoursePayment[Head(worker[w].todo).booking].payment_plan)
            - today

AlreadySent(w) ==
    LET t == Head(worker[w].todo)
    IN  IF worker[w].command = "send_session_reminders"
        THEN ExistingSessionReminder(EmailReminder, t.session,
                                     Booking[t.booking].email, DaysOf(w))
        ELSE ExistingPaymentReminder(EmailReminder, t.booking, DaysOf(w))

\* The top of the loop body, run without --force: the reminder day test
\* of the payment batch, the query for an existing reminder, and the
\* payment URL.
Check(w) ==
    /\ worker[w].pc = "check"
    /\ LET payment == worker[w].command = "send_payment_reminders"
           should_send == InList(DaysOf(w),
               get_payment_reminder_days_list(
                   SiteSettings.payment_reminder_days_before_list))
       IN  worker' =
               IF payment /\ ~should_send THEN Continue(w, "check")
               ELSE IF AlreadySent(w) THEN Continue(w, "check")
               ELSE IF payment /\ ~Reverse("course_payment")
                    THEN [worker EXCEPT ![w].pc = "crashed"]
               ELSE [worker EXCEPT ![w].pc = "send"]
    /\ UNCHANGED <<EmailReminder, outbox>>

TypeOf(w) ==
    IF worker[w].command = "send_session_reminders"
    THEN "session_reminder" ELSE "payment_reminder"

\* email.send(fail_silently=False), the mail server accepting
Send(w) ==
    /\ worker[w].pc = "send"
    /\ LET t == Head(worker[w].todo)
       IN  outbox' = Append(outbox, Mail(TypeOf(w), Recipient(t.booking),
                                         t.booking, t.session))
    /\ worker' = [worker EXCEPT ![w].pc = "record"]
    /\ UNCHANGED EmailReminder

\* EmailReminder.objects.create(...)
Record(w) ==
    /\ worker[w].pc = "record"
    /\ LET t == Head(worker[w].todo)
           payment == IF worker[w].command = "send_payment_reminders"
                      THEN t.booking ELSE 0
       IN  EmailReminder' = Append(EmailReminder,
               Reminder(payment, t.session, TypeOf(w), DaysOf(w),
                        Recipient(t.booking), TRUE))
    /\ worker' = Continue(w, "check")
    /\ UNCHANGED outbox

\* Session 2 takes place the day after today and is the first of its course;
\* the two bookings of that course are confirmed, under different addresses.
InitConcurrentRuns ==
    /\ InitLedgerIdle
    /\ InitSaveIdle
    /\ InitDueIdle
    /\ InitRateIdle
    /\ InitSingletonIdle
    /\ InitDaysIdle
    /\ rounding = "half_even"
    /\ Course = [c \in CourseIds |-> CourseRow(c)]
    /\ CourseSession = [s \in SessionIds |->
           SessionRow(s, IF s = 2 THEN <<1, 10>> ELSE FixedSlot(s))]
    /\ Booking = [b \in BookingIds |->
           BookingRow(b, IF b = 2 THEN "bob@example.org" ELSE "ann@example.org",
                      "confirmed")]
    /\ CoursePayment = [p \in PaymentIds |-> PaymentRow(p, "deposit_paid")]
    /\ SiteSettings = DefaultSettings
    /\ EmailReminder = <<>>
    /\ outbox = <<>>
    /\ today = 0
    /\ lastRun = NoRun
    /\ worker = [w \in Workers |-> IdleWorker]

NextConcurrentRuns ==
    \/ /\ \E w \in Workers, command \in BatchCommands, first \in FirstPicks :
          Start(w, command, first)
       /\ UNCHANGED <<payVars, rounding, saveVars, daysVars, dueVars, rateVars,
                      singletonVars, Course, CourseSession, SiteSettings, today,
                      lastRun>>
    \/ /\ \E w \in Workers : Check(w)
       /\ UNCHANGED <<payVars, rounding, saveVars, daysVars, dueVars, rateVars,
                      singletonVars, Course, CourseSession, SiteSettings, today,
                      lastRun>>
    \/ /\ \E w \in Workers : Send(w)
       /\ UNCHANGED <<payVars, rounding, saveVars, daysVars, dueVars, rateVars,
                      singletonVars, Course, CourseSession, SiteSettings, today,
                      lastRun>>
    \/ /\ \E w \in Workers : Record(w)
       /\ UNCHANGED <<payVars, rounding, saveVars, daysVars, dueVars, rateVars,
                      singletonVars, Course, CourseSession, SiteSettings, today,
                      lastRun>>

SpecConcurrentRuns == InitConcurrentRuns /\ [][NextConcurrentRuns]_vars

(* MODEL-END *)
-----------------------------------------------------------------------------
(* Properties of the Stripe handlers, checked under Spec *)

PaidFields(row) == <<row.status, row.deposit_paid_at, row.final_paid_at>>

\* The step delivers a verified payment_intent.succeeded event for x and the
\* handler meets no internal error.
SucceededDelivered(x) ==
    /\ lastReq'.handler = "stripe_webhook"
    /\ lastReq'.intent = x
    /\ lastReq'.response # 500

\* C1: a verified payment_intent.succeeded event for X delivered twice in
\* succession makes one state transition only: the second delivery leaves
\* the status, deposit_paid_at and final_paid_at of the payment correlated
\* to X unchanged and returns 200.
C1_ReplayIsNoOp ==
    [][\A x \in IntentIds :
          ( /\ lastReq.handler = "stripe_webhook"
            /\ lastReq.intent = x
            /\ lastReq.response = 200
            /\ SucceededDelivered(x)
            /\ Correlated(x) # 0 )
          => /\ lastReq'.response = 200
             /\ PaidFields(CoursePayment'[Correlated(x)])
                  = PaidFields(CoursePayment[Correlated(x)])]_vars

\* C2: when stripe_webhook applies payment_intent.succeeded to the correlated
\* payment, pending becomes deposit_paid with deposit_paid_at stamped,
\* deposit_paid becomes fully_paid with final_paid_at stamped, and in every
\* other status the status and both timestamps stay as they were.
C2_WebhookTransition ==
    [][\A x \in IntentIds :
          ( /\ SucceededDelivered(x)
            /\ ~RecordExists(x)
            /\ Correlated(x) # 0 )
          => LET old == CoursePayment[Correlated(x)]
                 new == CoursePayment'[Correlated(x)]
             IN  /\ lastReq'.response = 200
                 /\ old.status = "pending" =>
                       /\ new.status = "deposit_paid"
                       /\ new.deposit_paid_at = clock' /\ clock' > clock
                       /\ new.final_paid_at = old.final_paid_at
                 /\ old.status = "deposit_paid" =>
                       /\ new.status = "fully_paid"
                       /\ new.final_paid_at = clock' /\ clock' > clock
                       /\ new.deposit_paid_at = old.deposit_paid_at
                 /\ old.status \in {"fully_paid", "overdue", "cancelled"} =>
                       PaidFields(new) = PaidFields(old)]_vars

\* The webhook has carried a payment from pending to deposit_paid and on to
\* fully_paid.
C2_Witness ==
    /\ lastReq.handler = "stripe_webhook"
    /\ lastReq.intent \in PaymentIds
    /\ Correlated(lastReq.intent) # 0
    /\ ~RecordExists(lastReq.intent)
    /\ LET row == CoursePayment[Correlated(lastReq.intent)]
       IN  /\ row.status = "fully_paid"
           /\ row.deposit_paid_at # 0
           /\ row.final_paid_at > row.deposit_paid_at

-----------------------------------------------------------------------------
(* Properties of CoursePayment.save, checked under SpecSave *)

\* C3: after every CoursePayment.save, for every tier price and every plan,
\* the stored amounts satisfy deposit_amount + final_amount = total_amount.
C3_StoredAmountsAddUp ==
    saveOut.done =>
        saveOut.stored.deposit_amount + saveOut.stored.final_amount
            = saveOut.stored.total_amount

\* C4: for a payment on the full plan, after save final_amount is 0 and
\* deposit_amount is total_amount, whatever percentage the plan carries.
C4_FullPlanAmounts ==
    (saveOut.done /\ saveIn.name = "full") =>
        /\ saveOut.stored.final_amount = 0
        /\ saveOut.stored.deposit_amount = saveOut.stored.total_amount
        /\ saveOut.stored.total_amount = saveIn.price
        /\ saveOut.instance.final_amount = 0
        /\ saveOut.instance.deposit_amount = saveOut.instance.total_amount

\* A full-plan payment saved while its plan carries a percentage other than
\* 100.
C4_Witness ==
    /\ saveOut.done
    /\ saveIn.name = "full"
    /\ saveIn.pct = 5000
    /\ saveOut.stored.deposit_amount = 22500

-----------------------------------------------------------------------------
(* Properties of get_payment_reminder_days_list, checked under SpecDays *)

\* The text is a comma-separated list of integers.
WellFormedList == \A i \in 1..Len(daysIn.tokens) : daysIn.tokens[i].value # NotAnInt

\* C7: for every comma-separated list of integers, with optional whitespace
\* and repeated values, get_payment_reminder_days_list returns exactly the
\* distinct integers of the list in strictly descending order; "7,7,3,3,1"
\* yields <<7, 3, 1>>.
C7_DistinctDescending ==
    (daysOut.done /\ WellFormedList) =>
        /\ {daysOut.days[i] : i \in 1..Len(daysOut.days)}
             = {daysIn.tokens[i].value : i \in 1..Len(daysIn.tokens)}
        /\ \A i, j \in 1..Len(daysOut.days) : i < j => daysOut.days[i] > daysOut.days[j]
        /\ daysIn.text = <<"7", ",", "7", ",", "3", ",", "3", ",", "1">>
             => daysOut.days = <<7, 3, 1>>

\* The list "7,7,3,3,1" has been parsed.
C7_Witness ==
    /\ daysOut.done
    /\ daysIn.text = <<"7", ",", "7", ",", "3", ",", "3", ",", "1">>
    /\ daysOut.days = <<7, 3, 1>>

-----------------------------------------------------------------------------
(* Properties of the reminder batches *)

\* A step that is a run of the command cmd.
RunOf(cmd) == lastRun'.nth = lastRun.nth + 1 /\ lastRun'.command = cmd

\* The rows a step adds to EmailReminder and the e-mails it sends.
NewRecords == (Len(EmailReminder) + 1)..Len(EmailReminder')
NewMails == (Len(outbox) + 1)..Len(outbox')

\* The offset of a payment that the batch selects today, 0 - 1 if none.
DueOffset(p) ==
    LET d == PlanFinalDeadline(CoursePayment[p].payment_plan) - today
    IN  IF /\ p \in PendingPayments
           /\ InList(d, get_payment_reminder_days_list(
                            SiteSettings.payment_reminder_days_before_list))
        THEN d ELSE 0 - 1

DuePayments == {p \in PaymentIds : DueOffset(p) >= 0}

MailsOfPayment(box, p, day) ==
    {i \in 1..Len(box) : /\ box[i].template = "payment_reminder"
                         /\ box[i].booking = p
                         /\ box[i].sent_on = day}

\* C5: when send_payment_reminders is run twice on the same day without
\* force (and not as a dry run) and a payment matches an offset that day,
\* at most one e-mail has been delivered for the payment and the offset, the
\* second run finds an EmailReminder of the payment and the offset, counts
\* every such payment as skipped and sends nothing.
C5_SecondRunSkips ==
    [][(/\ RunOf("send_payment_reminders")
        /\ lastRun.command = "send_payment_reminders"
        /\ lastRun.day = today
        /\ ~lastRun.dry_run /\ ~lastRun.force
        /\ ~lastRun'.dry_run /\ ~lastRun'.force
        /\ SiteSettings.payment_reminder_enabled)
       => \A p \in DuePayments :
             /\ Cardinality(MailsOfPayment(outbox', p, today)) <= 1
             /\ ExistingPaymentReminder(EmailReminder, p, DueOffset(p))
             /\ lastRun'.outcome = "completed"
             /\ lastRun'.skipped = Cardinality(DuePayments)
             /\ lastRun'.sent = 0
             /\ outbox' = outbox]_vars

\* C6: a run of send_payment_reminders that is not a dry run, with payment
\* reminders enabled and no delivery refused, sends a reminder for every
\* payment with the deposit paid and the final payment open whose days until
\* the deadline are a configured offset and that has no EmailReminder of that
\* offset, and leaves a successful EmailReminder of the payment and the offset.
C6_EligiblePaymentsReminded ==
    [][(/\ RunOf("send_payment_reminders")
        /\ ~lastRun'.dry_run
        /\ lastRun'.errors = 0
        /\ SiteSettings.payment_reminder_enabled)
       => \A p \in DuePayments :
             ~ExistingPaymentReminder(EmailReminder, p, DueOffset(p))
             => /\ \E i \in NewMails : /\ outbox'[i].template = "payment_reminder"
                                       /\ outbox'[i].booking = p
                /\ \E i \in 1..Len(EmailReminder') :
                      /\ EmailReminder'[i].course_payment = p
                      /\ EmailReminder'[i].reminder_type = "payment_reminder"
                      /\ EmailReminder'[i].days_before_sent = DueOffset(p)
                      /\ EmailReminder'[i].successful]_vars

\* Chronological order of the sessions of a course: by date, then start time.
NotAfter(s, t) ==
    \/ CourseSession[s].date < CourseSession[t].date
    \/ /\ CourseSession[s].date = CourseSession[t].date
       /\ CourseSession[s].start_time <= CourseSession[t].start_time

SameCourse(s, t) == CourseSession[s].course = CourseSession[t].course

ChronologicallyFirst(s) ==
    \A t \in SessionIds : SameCourse(s, t) => NotAfter(s, t)

OnlyFirst(s) ==
    \A t \in SessionIds \ {s} : SameCourse(s, t) => ~NotAfter(t, s)

MailsAbout(s) == {i \in NewMails : outbox'[i].course_session = s}
RecordsAbout(s) == {i \in NewRecords : EmailReminder'[i].course_session = s}

\* Every confirmed booking of the session's course that is not suppressed
\* has a new record for its recipient and, when no delivery is refused, a
\* new e-mail to its recipient.
SentForSession(s) ==
    \A b \in ConfirmedBookings(CourseSession[s].course) :
        (\/ lastRun'.force
         \/ ~ExistingSessionReminder(EmailReminder, s, Booking[b].email,
                                     SiteSettings.session_reminder_days_before))
        => /\ \E i \in RecordsAbout(s) :
                 EmailReminder'[i].recipient_email = Recipient(b)
           /\ lastRun'.errors = 0
              => \E i \in MailsAbout(s) : outbox'[i].to = Recipient(b)

\* C8: in a run of send_session_reminders, e-mails are sent only about the
\* sessions that take place N days from today and only to confirmed bookings
\* of the session's course; in first_only mode a session gets e-mails only if
\* it is the chronologically first session of its course (date, then start
\* time), every other matching session gets no e-mail and no record, and the
\* one first session is sent for; in all_sessions mode every matching session
\* is sent for.
C8_SessionFrequency ==
    [][(/\ RunOf("send_session_reminders")
        /\ ~lastRun'.dry_run
        /\ SiteSettings.session_reminder_enabled)
       => /\ \A i \in NewMails :
                /\ outbox'[i].course_session \in UpcomingSessions(SessionTargetDate)
                /\ outbox'[i].booking \in
                      ConfirmedBookings(CourseSession[outbox'[i].course_session].course)
          /\ \A s \in UpcomingSessions(SessionTargetDate) :
                IF SiteSettings.session_reminder_per_course = "first_only"
                THEN /\ MailsAbout(s) # {} => ChronologicallyFirst(s)
                     /\ ~ChronologicallyFirst(s)
                        => MailsAbout(s) = {} /\ RecordsAbout(s) = {}
                     /\ OnlyFirst(s) => SentForSession(s)
                ELSE SentForSession(s)]_vars

\* A first_only run has sent for the first session of a course and passed
\* over a later session of the same course on the same day.
C8_Witness ==
    /\ lastRun.command = "send_session_reminders"
    /\ ~lastRun.dry_run
    /\ lastRun.day = today
    /\ SiteSettings.session_reminder_per_course = "first_only"
    /\ \E s \in SessionIds, t \in SessionIds :
          /\ s # t
          /\ SameCourse(s, t)
          /\ CourseSession[s].date = SessionTargetDate
          /\ CourseSession[t].date = SessionTargetDate
          /\ OnlyFirst(s)
          /\ \E i \in 1..Len(outbox) : outbox[i].course_session = s
          /\ \A i \in 1..Len(outbox) : outbox[i].course_session # t

\* What a run of the command that is not a dry run would deliver from the
\* present state, when no delivery is refused.
WouldSend(cmd, first, force) ==
    LET acc == CASE cmd = "send_payment_reminders" -> PaymentRun(FALSE, force, {})
                 [] cmd = "send_session_reminders" -> SessionRun(first, FALSE, force, {})
                 [] OTHER -> DetailsRun(FALSE, force, {})
    IN  Len(acc.outbox) - Len(outbox)

BatchEnabled(cmd) ==
    CASE cmd = "send_payment_reminders" -> SiteSettings.payment_reminder_enabled
      [] cmd = "send_session_reminders" -> SiteSettings.session_reminder_enabled
      [] OTHER -> SiteSettings.course_details_enabled

\* C9: a dry run of any of the three batches delivers no e-mail and leaves
\* the EmailReminder table as it was, and the number it reports as "would
\* send" is the number of e-mails a run without dry-run would send from the
\* same state.
C9_DryRunSelectsTheSame ==
    [][(/\ lastRun'.nth = lastRun.nth + 1
        /\ lastRun'.dry_run
        /\ BatchEnabled(lastRun'.command))
       => /\ outbox' = outbox
          /\ EmailReminder' = EmailReminder
          /\ \E first \in FirstPicks :
                lastRun'.sent = WouldSend(lastRun'.command, first, lastRun'.force)]_vars

\* The targets a batch selects from the present state.
SelectedPayments == DuePayments

SelectedSessionBookings ==
    {sb \in SessionIds \X BookingIds :
        /\ sb[1] \in UpcomingSessions(SessionTargetDate)
        /\ \/ SiteSettings.session_reminder_per_course = "all_sessions"
           \/ OnlyFirst(sb[1])
        /\ sb[2] \in ConfirmedBookings(CourseSession[sb[1]].course)}

SelectedCourseBookings ==
    {b \in BookingIds : /\ Booking[b].course \in StartingCourses(DetailsTargetDate)
                        /\ b \in ConfirmedBookings(Booking[b].course)}

IsPrefix(old, new) ==
    /\ Len(old) <= Len(new)
    /\ \A i \in 1..Len(old) : new[i] = old[i]

\* C10: a run with force and without dry-run adds an EmailReminder for every
\* selected target, whether or not a matching record exists, and, when no
\* delivery is refused, sends an e-mail for every selected target and adds
\* one record per e-mail; every step leaves the existing rows of
\* EmailReminder as they are.
C10_ForceSendsAndAppends ==
    [][/\ IsPrefix(EmailReminder, EmailReminder')
       /\ (/\ lastRun'.nth = lastRun.nth + 1
           /\ lastRun'.force
           /\ ~lastRun'.dry_run
           /\ BatchEnabled(lastRun'.command))
          => /\ lastRun'.command = "send_payment_reminders"
                => \A p \in SelectedPayments :
                      \E i \in NewRecords :
                         /\ EmailReminder'[i].course_payment = p
                         /\ EmailReminder'[i].days_before_sent = DueOffset(p)
                         /\ lastRun'.errors = 0
                            => \E j \in NewMails : outbox'[j].booking = p
             /\ lastRun'.command = "send_session_reminders"
                => \A sb \in SelectedSessionBookings :
                      \E i \in NewRecords :
                         /\ EmailReminder'[i].course_session = sb[1]
                         /\ EmailReminder'[i].recipient_email = Recipient(sb[2])
                         /\ lastRun'.errors = 0
                            => \E j \in NewMails :
                                  /\ outbox'[j].course_session = sb[1]
                                  /\ outbox'[j].booking = sb[2]
             /\ lastRun'.command = "send_course_details"
                => \A b \in SelectedCourseBookings :
                      /\ PaymentOfBooking(b) # 0
                         => \E i \in NewRecords :
                               EmailReminder'[i].course_payment = PaymentOfBooking(b)
                      /\ lastRun'.errors = 0
                         => \E j \in NewMails : outbox'[j].booking = b
             /\ lastRun'.errors = 0
                => Cardinality(NewRecords) = Cardinality(NewMails)]_vars

-----------------------------------------------------------------------------
(* Properties of the webhook's other paths and of the handlers' errors,
   checked under Spec *)

LedgerUnchanged ==
    /\ \A p \in PaymentIds :
          PaidFields(CoursePayment'[p]) = PaidFields(CoursePayment[p])
    /\ StripePaymentRecord' = StripePaymentRecord

C12_UnverifiedRejected ==
    [][(lastReq'.handler = "stripe_webhook" /\ ~lastReq'.verified)
       => /\ lastReq'.response = 400
          /\ CoursePayment' = CoursePayment
          /\ StripePaymentRecord' = StripePaymentRecord]_vars

\* An unverified request has been rejected while a paid, still pending
\* payment holds an intent id that a succeeded event would have matched.
C12_Witness ==
    /\ lastReq.handler = "stripe_webhook"
    /\ ~lastReq.verified
    /\ lastReq.response = 400
    /\ \E p \in PaymentIds : /\ CoursePayment[p].exists
                             /\ CoursePayment[p].status = "pending"
                             /\ CoursePayment[p].stripe_payment_intent_id = IntentOf(p)
                             /\ stripeSession[p].paid

\* C13: when stripe_webhook or payment_success ends in its except block, the
\* status and the timestamps of every payment are those of before the
\* request, and the webhook answers 500.
C13_ErrorLeavesStatus ==
    [][(/\ lastReq'.handler \in {"stripe_webhook", "payment_success"}
        /\ lastReq'.error)
       => /\ \A p \in PaymentIds :
                PaidFields(CoursePayment'[p]) = PaidFields(CoursePayment[p])
          /\ lastReq'.handler = "stripe_webhook" => lastReq'.response = 500]_vars

\* C14: once a StripePaymentRecord of the intent X exists (payment_success
\* alone creates one), a verified payment_intent.succeeded event for X that
\* meets no internal error is answered with 200 and changes no CoursePayment
\* and no StripePaymentRecord.
C14_WebhookAfterSuccessIsNoOp ==
    [][(/\ lastReq'.handler = "stripe_webhook"
        /\ lastReq'.event = "payment_intent.succeeded"
        /\ ~lastReq'.error
        /\ \E r \in StripePaymentRecord :
              r.stripe_payment_intent_id = lastReq'.intent)
       => /\ lastReq'.response = 200
          /\ CoursePayment' = CoursePayment
          /\ StripePaymentRecord' = StripePaymentRecord]_vars

\* The webhook has answered 200 to a succeeded event whose intent
\* payment_success had recorded, the payment being left deposit_paid.
C14_Witness ==
    /\ lastReq.handler = "stripe_webhook"
    /\ lastReq.event = "payment_intent.succeeded"
    /\ lastReq.response = 200
    /\ \E r \in StripePaymentRecord :
          /\ r.stripe_payment_intent_id = lastReq.intent
          /\ CoursePayment[r.course_payment].status = "deposit_paid"
          /\ CoursePayment[r.course_payment].stripe_payment_intent_id = lastReq.intent

\* C15: is_overdue is true exactly when the payment is pending and today is
\* strictly after the plan's deposit deadline, or the deposit is paid and
\* today is strictly after the final payment deadline; it is false on the
\* deadline day itself and for fully_paid, overdue and cancelled payments.
C15_IsOverdue ==
    dueOut.asked_overdue =>
        LET self == dueIn.payment
            plan == self.payment_plan
        IN  /\ dueOut.overdue =
                  (\/ self.status = "pending" /\ dueIn.now > plan.deposit_deadline
                   \/ self.status = "deposit_paid"
                      /\ dueIn.now > plan.final_payment_deadline)
            /\ (self.status = "pending" /\ dueIn.now = plan.deposit_deadline)
                  => ~dueOut.overdue
            /\ (self.status = "deposit_paid" /\ dueIn.now = plan.final_payment_deadline)
                  => ~dueOut.overdue
            /\ self.status \in {"fully_paid", "overdue", "cancelled"}
                  => ~dueOut.overdue

\* is_overdue was read on the deposit deadline day of a pending payment whose
\* final deadline has not come either.
C15_Witness ==
    /\ dueOut.asked_overdue
    /\ dueIn.payment.status = "pending"
    /\ dueIn.now = dueIn.payment.payment_plan.deposit_deadline
    /\ dueIn.now > 0
    /\ ~dueOut.overdue

\* C16: next_payment_due is the deposit amount while the payment is pending,
\* the final amount while the deposit is paid, and zero otherwise.
C16_NextPaymentDue ==
    dueOut.asked_due =>
        LET self == dueIn.payment
        IN  dueOut.due =
                CASE self.status = "pending" -> self.deposit_amount
                  [] self.status = "deposit_paid" -> self.final_amount
                  [] OTHER -> 0

\* next_payment_due was read for an overdue payment with a final amount left.
C16_Witness ==
    /\ dueOut.asked_due
    /\ dueIn.payment.status = "overdue"
    /\ dueIn.payment.final_amount > 0
    /\ dueOut.due = 0

-----------------------------------------------------------------------------
(* Properties of refused deliveries and of repeated runs of the batches *)

\* The new rows of EmailReminder that record a failure with its message.
FailedRows ==
    {i \in NewRecords : /\ ~EmailReminder'[i].successful
                        /\ EmailReminder'[i].error_message = ErrorText}

\* No other confirmed booking of the course has the address of booking b, so
\* no row written earlier in the same run can suppress the e-mail of b.
OwnAddress(b) ==
    \A o \in ConfirmedBookings(Booking[b].course) \ {b} :
        Booking[o].email # Booking[b].email

\* The payments a run that is not a dry run tries to deliver to, the mail
\* server refusing those of failing.
RefusedPayments(force, failing) ==
    {p \in SelectedPayments \cap failing :
        force \/ ~ExistingPaymentReminder(EmailReminder, p, DueOffset(p))}

RefusedSessionBookings(force, failing) ==
    {sb \in SelectedSessionBookings :
        /\ sb[2] \in failing
        /\ \/ force
           \/ /\ ~ExistingSessionReminder(EmailReminder, sb[1], Booking[sb[2]].email,
                                          SiteSettings.session_reminder_days_before)
              /\ OwnAddress(sb[2])}

RefusedCourseBookings(force, failing) ==
    {b \in SelectedCourseBookings \cap failing :
        \/ force
        \/ /\ ~ExistingDetailsReminder(EmailReminder, PaymentOfBooking(b),
                                       Booking[b].email)
           /\ OwnAddress(b)}

\* The run records one failure per counted error, counts at least one, and
\* goes on to the end of its targets.
FailureHandled ==
    /\ lastRun'.outcome = "completed"
    /\ lastRun'.errors >= 1
    /\ lastRun'.errors = Cardinality(FailedRows)

\* The session-reminder half of C17: a refused delivery leaves a failed row
\* of the session and the recipient, and every other selected booking is
\* still sent to or has a row that suppresses it.
SessionFailureStep(first, force, failing) ==
    (/\ send_session_reminders(first, FALSE, force, failing)
     /\ SiteSettings.session_reminder_enabled)
    => \A sb \in RefusedSessionBookings(force, failing) :
          /\ FailureHandled
          /\ \E i \in FailedRows :
                /\ EmailReminder'[i].course_session = sb[1]
                /\ EmailReminder'[i].reminder_type = "session_reminder"
                /\ EmailReminder'[i].recipient_email = Recipient(sb[2])
          /\ \A i \in MailsAbout(sb[1]) : outbox'[i].booking # sb[2]
          /\ \A other \in SelectedSessionBookings :
                other[2] \notin failing
                => \/ \E i \in MailsAbout(other[1]) : outbox'[i].booking = other[2]
                   \/ ExistingSessionReminder(EmailReminder', other[1],
                          Booking[other[2]].email,
                          SiteSettings.session_reminder_days_before)

PaymentFailureStep(force, failing) ==
    (/\ send_payment_reminders(FALSE, force, failing)
     /\ SiteSettings.payment_reminder_enabled)
    => \A p \in RefusedPayments(force, failing) :
          /\ FailureHandled
          /\ \E i \in FailedRows :
                /\ EmailReminder'[i].course_payment = p
                /\ EmailReminder'[i].reminder_type = "payment_reminder"
                /\ EmailReminder'[i].days_before_sent = DueOffset(p)
          /\ \A i \in NewMails : outbox'[i].booking # p

DetailsFailureStep(force, failing) ==
    (/\ send_course_details(FALSE, force, failing)
     /\ SiteSettings.course_details_enabled)
    => \A b \in RefusedCourseBookings(force, failing) :
          /\ FailureHandled
          /\ PaymentOfBooking(b) # 0
             => \E i \in FailedRows :
                   /\ EmailReminder'[i].course_payment = PaymentOfBooking(b)
                   /\ EmailReminder'[i].reminder_type = "course_details"
          /\ \A i \in NewMails : outbox'[i].booking # b

C17_SessionBatchOnly ==
    [][\A force \in BOOLEAN : \A failing \in Deliveries(FALSE) :
          \A first \in FirstPicks : SessionFailureStep(first, force, failing)]_vars

\* A run without force and without dry-run, started from the table and the
\* queue a step leaves, no delivery refused.
LaterPaymentRun ==
    PaymentLoop([StartOfRun EXCEPT !.log = EmailReminder', !.outbox = outbox'],
                OrderById(PendingPayments), FALSE, FALSE, {})

FailedPaymentReminder(log, p, days) ==
    \E i \in 1..Len(log) : /\ log[i].course_payment = p
                           /\ log[i].reminder_type = "payment_reminder"
                           /\ log[i].days_before_sent = days
                           /\ ~log[i].successful

SessionMailsFor(box, s, b) ==
    {i \in 1..Len(box) : /\ box[i].template = "session_reminder"
                         /\ box[i].course_session = s
                         /\ box[i].booking = b}

\* C19: a run of send_session_reminders without force and without dry-run
\* delivers, for every session and every confirmed booking, no e-mail on
\* behalf of the booking when one was delivered before, and at most one
\* otherwise, whether test mode is on or off.
C19_OneReminderPerBooking ==
    [][(/\ RunOf("send_session_reminders")
        /\ ~lastRun'.force
        /\ ~lastRun'.dry_run)
       => \A s \in SessionIds : \A b \in BookingIds :
             /\ Cardinality(SessionMailsFor(outbox', s, b))
                   <= Cardinality(SessionMailsFor(outbox, s, b)) + 1
             /\ SessionMailsFor(outbox, s, b) # {}
                => SessionMailsFor(outbox', s, b) = SessionMailsFor(outbox, s, b)]_vars

\* The same with test mode off.
C19_WithoutTestMode ==
    [][(/\ RunOf("send_session_reminders")
        /\ ~lastRun'.force
        /\ ~lastRun'.dry_run
        /\ ~SiteSettings.reminder_test_mode)
       => \A s \in SessionIds : \A b \in BookingIds :
             SessionMailsFor(outbox, s, b) # {}
             => SessionMailsFor(outbox', s, b) = SessionMailsFor(outbox, s, b)]_vars

\* A run of send_course_details without force and without dry-run, started
\* from the table and the queue a step leaves, no delivery refused.
LaterDetailsRun ==
    DetailsLoop([StartOfRun EXCEPT !.log = EmailReminder', !.outbox = outbox'],
                OrderById(StartingCourses(DetailsTargetDate)), FALSE, FALSE, {})

DetailsMailsFor(box, b) ==
    {i \in 1..Len(box) : box[i].template = "course_details" /\ box[i].booking = b}

\* C20: a run of send_course_details that is not a dry run, no delivery
\* refused, on a day when an active course with confirmed bookings starts N
\* days ahead, completes; every confirmed booking of such a course that is
\* not suppressed gets one course-details e-mail, recorded against the
\* payment of the booking; and a later run without force sends nothing to a
\* booking whose payment and recipient are recorded.
C20_CourseDetailsSent ==
    [][\A force \in BOOLEAN :
          (/\ send_course_details(FALSE, force, {})
           /\ SiteSettings.course_details_enabled
           /\ SelectedCourseBookings # {})
          => /\ lastRun'.outcome = "completed"
             /\ \A b \in SelectedCourseBookings :
                   (\/ force
                    \/ PaymentOfBooking(b) = 0
                    \/ ~ExistingDetailsReminder(EmailReminder, PaymentOfBooking(b),
                                                Booking[b].email))
                   => /\ Cardinality(DetailsMailsFor(outbox', b))
                            = Cardinality(DetailsMailsFor(outbox, b)) + 1
                      /\ PaymentOfBooking(b) # 0
                         => \E i \in NewRecords :
                               /\ EmailReminder'[i].course_payment = PaymentOfBooking(b)
                               /\ EmailReminder'[i].reminder_type = "course_details"
                               /\ EmailReminder'[i].recipient_email = Recipient(b)
                               /\ EmailReminder'[i].successful
             /\ ~LaterDetailsRun.crashed
             /\ \A b \in SelectedCourseBookings :
                   (/\ PaymentOfBooking(b) # 0
                    /\ ExistingDetailsReminder(EmailReminder', PaymentOfBooking(b),
                                               Recipient(b)))
                   => DetailsMailsFor(LaterDetailsRun.outbox, b)
                         = DetailsMailsFor(outbox', b)]_vars

-----------------------------------------------------------------------------
(* Properties of the checkout request and of the payment's status, checked
   under Spec *)

Rank(status) ==
    CASE status = "pending" -> 1
      [] status = "deposit_paid" -> 2
      [] status = "fully_paid" -> 3
      [] OTHER -> 0

\* C25: no stripe_webhook delivery and no payment_success request moves the
\* status of a CoursePayment backwards in pending < deposit_paid <
\* fully_paid, and neither overwrites deposit_paid_at or final_paid_at once
\* it is set.
C25_StatusNeverMovesBack ==
    [][lastReq'.handler \in {"payment_success", "stripe_webhook"}
       => \A p \in PaymentIds :
             LET old == CoursePayment[p]
                 new == CoursePayment'[p]
             IN  old.exists
                 => /\ (Rank(old.status) > 0 /\ Rank(new.status) > 0)
                          => Rank(new.status) >= Rank(old.status)
                    /\ old.deposit_paid_at # 0
                          => new.deposit_paid_at = old.deposit_paid_at
                    /\ old.final_paid_at # 0
                          => new.final_paid_at = old.final_paid_at]_vars

RecordsOf(pi) == {r \in StripePaymentRecord : r.stripe_payment_intent_id = pi}

\* C26: a payment_success request for a checkout session whose payment
\* intent an earlier payment_success request has recorded leaves exactly one
\* StripePaymentRecord of the intent, sends no further confirmation e-mail,
\* and changes no field of the CoursePayment.
C26_PaymentSuccessIdempotent ==
    [][\A sid \in PaymentIds :
          (/\ payment_success(sid, FALSE)
           /\ stripeSession[sid].payment_intent # 0
           /\ RecordExists(stripeSession[sid].payment_intent))
          => /\ Cardinality(RecordsOf(stripeSession[sid].payment_intent)') = 1
             /\ confirmations' = confirmations
             /\ CoursePayment'[sid] = CoursePayment[sid]]_vars

\* The selection of send_payment_reminders, read off a row.
AwaitsFinalPayment(row) == row.deposit_paid_at # 0 /\ row.final_paid_at = 0

\* C27: a CoursePayment on the full plan is never deposit_paid: its one
\* successful payment takes it from pending to fully_paid with both
\* timestamps set, through payment_success and through the webhook alike, so
\* it is never among the payments selected for a final-payment reminder.
C27_FullPlanNeverDepositPaid ==
    \A p \in PaymentIds :
        (CoursePayment[p].exists /\ CoursePayment[p].payment_plan = "full")
        => /\ CoursePayment[p].status # "deposit_paid"
           /\ ~AwaitsFinalPayment(CoursePayment[p])
           /\ CoursePayment[p].status = "fully_paid"
              => /\ CoursePayment[p].deposit_paid_at # 0
                 /\ CoursePayment[p].final_paid_at # 0

\* C28: in every reachable state the payments send_payment_reminders selects
\* (deposit_paid_at set, final_paid_at not set) are the payments whose
\* status is deposit_paid.
C28_SelectionIsDepositPaid ==
    \A p \in PaymentIds :
        CoursePayment[p].exists
        => (AwaitsFinalPayment(CoursePayment[p])
               <=> CoursePayment[p].status = "deposit_paid")

\* The same as long as the admin has never edited a status: a deposit_paid
\* payment that the selection leaves out.
C28_DepositPaidIsSelected ==
    \A p \in PaymentIds :
        (CoursePayment[p].exists /\ CoursePayment[p].status = "deposit_paid")
        => AwaitsFinalPayment(CoursePayment[p])

\* C29: in every reachable state a booking is counted by
\* Course.confirmed_bookings_count (its payment is deposit_paid or
\* fully_paid) exactly when the reminder batches take it as confirmed
\* (Booking.status is confirmed), so a booking whose payment payment_success
\* or the webhook has moved to deposit_paid or fully_paid is a recipient of
\* the session and course-details reminders.
C29_ConfirmedNotionsAgree ==
    /\ \A b \in PaymentIds :
          Booking[b].exists
          => (CountedAsConfirmed(b) <=> Booking[b].status = "confirmed")
    /\ confirmed_bookings_count(1)
          = Cardinality({b \in PaymentIds : /\ Booking[b].exists
                                            /\ Booking[b].course = 1
                                            /\ Booking[b].status = "confirmed"})

-----------------------------------------------------------------------------
(* Properties of the rate limiter, checked under SpecRate and SpecRateRace *)

\* The requests of the key admitted in the window of Window seconds that
\* begins with the admitted request number i.
AdmittedInWindow(log, i) ==
    {j \in i..Len(log) : log[j] < log[i] + Window}

\* The key has a window, counted from one of its admitted requests, that is
\* still open now and already holds Limit admitted requests.
WindowFull(log, now) ==
    \E i \in 1..Len(log) : /\ now < log[i] + Window
                           /\ Cardinality(AdmittedInWindow(log, i)) >= Limit

CalledKey == cache_key(lastCall'.action, lastCall'.ip)

\* C22: for every action and client address, at most Limit requests made
\* one after another are admitted within Window seconds counted from an
\* admitted request; a request made while such a window is full is rejected
\* and leaves the counter as it was; and a request leaves the counters of
\* the other addresses and actions alone and is never rejected on their
\* account.
C22_FixedWindowPerKey ==
    [][lastCall'.nth = lastCall.nth + 1
       => /\ \A i \in 1..Len(served'[CalledKey]) :
                Cardinality(AdmittedInWindow(served'[CalledKey], i)) <= Limit
          /\ WindowFull(served[CalledKey], seconds)
                => /\ lastCall'.limited
                   /\ cache' = cache
                   /\ served' = served
          /\ lastCall'.limited => cache' = cache /\ served' = served
          /\ \A k \in CacheKeys \ {CalledKey} :
                cache'[k] = cache[k] /\ served'[k] = served[k]
          /\ lastCall'.limited => Len(served[CalledKey]) >= Limit]_vars

\* A request was rejected for a full key after a request for another key,
\* made while the first was full, had been admitted.
C22_Witness ==
    /\ lastCall.limited
    /\ WindowFull(served[cache_key(lastCall.action, lastCall.ip)], seconds)
    /\ \E k \in CacheKeys \ {cache_key(lastCall.action, lastCall.ip)} :
          /\ served[k] # <<>>
          /\ \A i \in 1..Len(served[k]) :
                served[k][i] >= served[cache_key(lastCall.action, lastCall.ip)][Limit]

\* Not part of C22: the counter of a key does not start afresh Window
\* seconds after the first admitted request, because every admitted request
\* renews the expiry of the entry.
C22_WindowFixed ==
    [][(lastCall'.nth = lastCall.nth + 1 /\ lastCall'.limited)
       => WindowFull(served[CalledKey], seconds)]_vars

\* C30: however the cache reads and writes of requests handled at the same
\* time interleave, at most Limit requests of one client address for one
\* action are admitted within Window seconds of an admitted request.
C30_LimitHoldsUnderInterleaving ==
    \A k \in DOMAIN served :
        \A i \in 1..Len(served[k]) :
            Cardinality(AdmittedInWindow(served[k], i)) <= Limit

-----------------------------------------------------------------------------
(* Properties of the SiteSettings singleton, checked under SpecSingleton *)

\* C23: after any sequence of save, delete and load calls on SiteSettings
\* instances at most one row is stored and its pk is 1; delete removes
\* nothing; load returns the stored row, creating it with the field
\* defaults when there is none; and save stores the instance's values, so
\* that they are what a later load returns.
C23_Singleton ==
    [][settingsOut'.nth = settingsOut.nth + 1
       => /\ DOMAIN SiteSettingsRows' \subseteq {1}
          /\ settingsOut'.call = "delete" => SiteSettingsRows' = SiteSettingsRows
          /\ settingsOut'.call = "save"
                => /\ DOMAIN SiteSettingsRows' = {1}
                   /\ SiteSettingsRows'[1] = settingsOut'.instance.values
          /\ settingsOut'.call = "load"
                => /\ DOMAIN SiteSettingsRows' = {1}
                   /\ settingsOut'.instance.pk = 1
                   /\ settingsOut'.instance.values = SiteSettingsRows'[1]
                   /\ IF 1 \in StoredPks
                      THEN SiteSettingsRows' = SiteSettingsRows
                      ELSE SiteSettingsRows'[1] = DefaultSettings]_vars

\* A load, made after a save and at least one other call, returned values
\* that are not the defaults.
C23_Witness ==
    /\ settingsOut.call = "load"
    /\ settingsOut.nth >= 3
    /\ settingsOut.instance.values # DefaultSettings
    /\ settingsOut.instance.values = SiteSettingsRows[1]

-----------------------------------------------------------------------------
(* Two invocations of a batch at the same time, checked under
   SpecConcurrentRuns *)

SameReminder(a, b) ==
    /\ a.course_payment = b.course_payment
    /\ a.course_session = b.course_session
    /\ a.recipient_email = b.recipient_email
    /\ a.reminder_type = b.reminder_type
    /\ a.days_before_sent = b.days_before_sent

SameMail(a, b) ==
    /\ a.template = b.template
    /\ a.booking = b.booking
    /\ a.course_session = b.course_session
    /\ a.sent_on = b.sent_on

\* C21: when invocations of the same batch run at the same time on one day,
\* the table holds at most one EmailReminder per target, reminder type and
\* days_before_sent, and at most one e-mail per target has been delivered.
C21_NoDuplicatesWhenConcurrent ==
    /\ \A i, j \in 1..Len(EmailReminder) :
          i # j => ~SameReminder(EmailReminder[i], EmailReminder[j])
    /\ \A i, j \in 1..Len(outbox) :
          i # j => ~SameMail(outbox[i], outbox[j])
====
